---- MODULE Spec2Model ----
(***************************************************************************)
(* A model of the MCP tool server of src/src/mcp_server/server.py: the     *)
(* dispatcher call_tool, the seven tool handlers, the geocoder, and the    *)
(* response formatters.                                                    *)
(*                                                                         *)
(* Representation.  A Python str is a sequence of chunks (TLA+ strings):   *)
(* a literal word of a message is one chunk, an interpolated value is      *)
(* spliced in chunk by chunk, and a calculator expression or an analysed   *)
(* text is a sequence of one-character chunks.  A text block is such a     *)
(* sequence.  A dict key that may be absent (or a value that may be None)   *)
(* is a sequence of length at most one: <<>> when absent, <<v>> when set.  *)
(* The emoji that open the lines of the reports are left out.              *)
(***************************************************************************)
EXTENDS Integers, Sequences, FiniteSets, TLC

(***************************************************************************)
(* Bounds of the model.                                                    *)
(***************************************************************************)
MaxExprLen == 3

MaxTextLen == 4

\* The most operators in an arithmetic expression built by its grammar.
MaxOperators == 2

\* The number of flight records in the longest provider payload.
MaxFlights == 11

\* The largest weather code described.
MaxCode == 100

(***************************************************************************)
(* Generic helpers.                                                        *)
(***************************************************************************)
SeqsUpTo(S, n) == UNION { [1..k -> S] : k \in 0..n }

Range(s) == { s[k] : k \in DOMAIN s }

RECURSIVE Concat(_)
Concat(ss) == IF ss = <<>> THEN <<>> ELSE Head(ss) \o Concat(Tail(ss))

IsPrefix(p, s) == Len(p) <= Len(s) /\ SubSeq(s, 1, Len(p)) = p

Contains(s, c) == \E k \in DOMAIN s : s[k] = c

Abs(x) == IF x < 0 THEN -x ELSE x

RECURSIVE Gcd(_, _)
Gcd(a, b) == IF b = 0 THEN a ELSE Gcd(b, a % b)

\* Python's floor division and modulo on integers (b # 0): the quotient is
\* rounded towards minus infinity, the remainder has the divisor's sign.
FloorDiv(a, b) ==
  LET q == Abs(a) \div Abs(b)
      exact == Abs(a) % Abs(b) = 0
  IN IF (a >= 0) = (b > 0) THEN q ELSE IF exact THEN -q ELSE -(q + 1)

PyMod(a, b) == a - b * FloorDiv(a, b)

(***************************************************************************)
(* str(int): the decimal digits of an integer.                             *)
(***************************************************************************)
DigitChars == <<"0", "1", "2", "3", "4", "5", "6", "7", "8", "9">>

RECURSIVE NatToStr(_)
NatToStr(n) ==
  IF n < 10 THEN <<DigitChars[n + 1]>>
  ELSE NatToStr(n \div 10) \o <<DigitChars[(n % 10) + 1]>>

IntToStr(n) == IF n < 0 THEN <<"-">> \o NatToStr(-n) ELSE NatToStr(n)

IsDigit(c) == c \in Range(DigitChars)

DigitVal(c) == CHOOSE k \in 0..9 : DigitChars[k + 1] = c

(***************************************************************************)
(* Argument values.  A value of an argument map carries its Python type.   *)
(***************************************************************************)
StrV(s) == [t |-> "str", s |-> s, i |-> 0, b |-> FALSE]

IntV(i) == [t |-> "int", s |-> <<>>, i |-> i, b |-> FALSE]

BoolV(b) == [t |-> "bool", s |-> <<>>, i |-> 0, b |-> b]

\* Python truthiness, as tested by "if not x".
Truthy(v) ==
  CASE v.t = "str" -> v.s # <<>>
    [] v.t = "int" -> v.i # 0
    [] OTHER -> v.b

\* arguments.get(key, default)
ArgGet(arguments, key, default) ==
  IF key \in DOMAIN arguments THEN arguments[key] ELSE default

(***************************************************************************)
(* The outcome of a handler: the blocks it returns, or a raised exception. *)
(* kind names the error condition the outcome reports ("" for a success):  *)
(* for an outcome built by an except clause, the class of the exception.   *)
(***************************************************************************)
Returned(text) == [raised |-> FALSE, exc |-> "", kind |-> "", blocks |-> <<text>>]

Failed(kind, text) ==
  [raised |-> FALSE, exc |-> "", kind |-> kind, blocks |-> <<text>>]

Raised(exc) == [raised |-> TRUE, exc |-> exc, kind |-> exc, blocks |-> <<>>]

(***************************************************************************)
(* The calculator's evaluator: Python's eval() restricted to the strings   *)
(* that pass the character whitelist of handle_calculator.  Such a string  *)
(* holds no letter, so the only atoms are number literals, (), (expr) and  *)
(* the Ellipsis literal; the operators are + - * / // % ** and the call    *)
(* and attribute trailers.  Numbers are exact rationals n/d; kind "float"  *)
(* marks a Python float.  A SyntaxError is raised by compilation, before   *)
(* any run-time error; run-time errors are raised in evaluation order.     *)
(***************************************************************************)
Tk(k, n, d) == [k |-> k, n |-> n, d |-> d]

RECURSIVE DigitsEnd(_, _)
DigitsEnd(cs, i) ==
  IF i <= Len(cs) /\ IsDigit(cs[i]) THEN DigitsEnd(cs, i + 1) ELSE i

RECURSIVE DigitsValue(_, _, _)
DigitsValue(cs, i, j) ==
  IF j <= i THEN 0 ELSE DigitsValue(cs, i, j - 1) * 10 + DigitVal(cs[j - 1])

RECURSIVE IPow(_, _)
IPow(a, e) == IF e = 0 THEN 1 ELSE a * IPow(a, e - 1)

\* n/d in lowest terms with a positive denominator.
Norm(n, d) ==
  LET g == Gcd(Abs(n), Abs(d))
      sg == IF d < 0 THEN -1 ELSE 1
  IN [n |-> sg * (n \div g), d |-> sg * (d \div g)]

\* The number literal starting at cs[i], and the index after it.
NumberToken(cs, i) ==
  LET j == DigitsEnd(cs, i)
      hasDot == j <= Len(cs) /\ cs[j] = "."
      k == IF hasDot THEN DigitsEnd(cs, j + 1) ELSE j
      ip == DigitsValue(cs, i, j)
      fd == IPow(10, k - j - 1)
      q == Norm(ip * fd + DigitsValue(cs, j + 1, k), fd)
  IN IF hasDot THEN [tok |-> Tk("float", q.n, q.d), next |-> k]
     ELSE IF j - i > 1 /\ cs[i] = "0" /\ ip # 0
          THEN [tok |-> Tk("badnum", 0, 1), next |-> j]
          ELSE [tok |-> Tk("int", ip, 1), next |-> j]

RECURSIVE TokenizeFrom(_, _)
TokenizeFrom(cs, i) ==
  IF i > Len(cs) THEN <<>>
  ELSE LET c == cs[i]
           nx == IF i + 1 <= Len(cs) THEN cs[i + 1] ELSE ""
           nx2 == IF i + 2 <= Len(cs) THEN cs[i + 2] ELSE ""
       IN CASE c = " " -> TokenizeFrom(cs, i + 1)
            [] IsDigit(c) \/ (c = "." /\ IsDigit(nx)) ->
                 LET t == NumberToken(cs, i)
                 IN <<t.tok>> \o TokenizeFrom(cs, t.next)
            [] c = "." /\ nx = "." /\ nx2 = "." ->
                 <<Tk("...", 0, 1)>> \o TokenizeFrom(cs, i + 3)
            [] c = "*" /\ nx = "*" ->
                 <<Tk("**", 0, 1)>> \o TokenizeFrom(cs, i + 2)
            [] c = "/" /\ nx = "/" ->
                 <<Tk("//", 0, 1)>> \o TokenizeFrom(cs, i + 2)
            [] OTHER -> <<Tk(c, 0, 1)>> \o TokenizeFrom(cs, i + 1)

Tokenize(cs) == TokenizeFrom(cs, 1)

\* Values of the evaluator.
NumVal(k, q) == [k |-> k, n |-> q.n, d |-> q.d]

TupleVal == [k |-> "tuple", n |-> 0, d |-> 1]

EllipsisVal == [k |-> "ellipsis", n |-> 0, d |-> 1]

\* A float the model does not compute: the result of arithmetic on an operand
\* that is itself a rounded float (d = 0 marks it).
InexactVal == [k |-> "float", n |-> 0, d |-> 0]

\* A float n/d is the double nearest to n/d; it equals n/d when d is a power
\* of two, and arithmetic on such operands is exact or correctly rounded.
RECURSIVE IsPow2(_)
IsPow2(d) == d = 1 \/ (d > 1 /\ d % 2 = 0 /\ IsPow2(d \div 2))

IsExact(v) == IsPow2(Abs(v.d))

IsNum(v) == v.k \in {"int", "float"}

\* The result of a binary operator: a value, or the exception it raises.
OpVal(v) == [rt |-> "", v |-> v]

OpErr(e) == [rt |-> e, v |-> TupleVal]

\* IEEE 754 keeps the sign of a float zero: -0.0 is n = 0, d = -1.
IsNegative(v) == v.n < 0 \/ (v.n = 0 /\ v.d < 0)

FloatOrInt(kind, q, negzero) ==
  IF kind = "float" /\ q.n = 0
  THEN [k |-> "float", n |-> 0, d |-> IF negzero THEN -1 ELSE 1]
  ELSE NumVal(kind, q)

NumPow(a, b, kind) ==
  IF a.n = 0 /\ b.n < 0 THEN OpErr("ZeroDivisionError")
  ELSE IF ~IsExact(a) \/ b.d \notin {1, -1} THEN OpVal(InexactVal)
  ELSE IF b.n >= 0
       THEN OpVal(FloatOrInt(kind, Norm(IPow(a.n, b.n), IPow(Abs(a.d), b.n)),
                             IsNegative(a) /\ b.n % 2 = 1))
       ELSE IF a.n = 0 THEN OpErr("ZeroDivisionError")
            ELSE OpVal(NumVal("float", Norm(IPow(a.d, -b.n), IPow(a.n, -b.n))))

NumOp(op, a, b) ==
  LET kind == IF a.k = "float" \/ b.k = "float" THEN "float" ELSE "int"
      quot == FloorDiv(a.n * b.d, a.d * b.n)
      differ == IsNegative(a) # IsNegative(b)
  IN CASE op \in {"/", "//", "%"} /\ b.n = 0 /\ b.d # 0 ->
            OpErr("ZeroDivisionError")
       [] op = "**" -> NumPow(a, b, kind)
       [] ~IsExact(a) \/ ~IsExact(b) -> OpVal(InexactVal)
       [] op = "+" ->
            OpVal(FloatOrInt(kind, Norm(a.n * b.d + b.n * a.d, a.d * b.d),
                             IsNegative(a) /\ IsNegative(b)))
       [] op = "-" ->
            OpVal(FloatOrInt(kind, Norm(a.n * b.d - b.n * a.d, a.d * b.d),
                             IsNegative(a) /\ ~IsNegative(b)))
       [] op = "*" ->
            OpVal(FloatOrInt(kind, Norm(a.n * b.n, a.d * b.d), differ))
       [] op = "/" ->
            OpVal(FloatOrInt("float", Norm(a.n * b.d, a.d * b.n), differ))
       [] op = "//" -> OpVal(FloatOrInt(kind, Norm(quot, 1), differ))
       [] OTHER ->
            OpVal(FloatOrInt(kind,
                    Norm(a.n * b.d - quot * b.n * a.d, a.d * b.d),
                    IsNegative(b)))

BinOp(op, a, b) ==
  CASE IsNum(a) /\ IsNum(b) -> NumOp(op, a, b)
    [] op = "+" /\ a.k = "tuple" /\ b.k = "tuple" -> OpVal(TupleVal)
    [] op = "*" /\ a.k = "tuple" /\ b.k = "int" -> OpVal(TupleVal)
    [] op = "*" /\ a.k = "int" /\ b.k = "tuple" -> OpVal(TupleVal)
    [] OTHER -> OpErr("TypeError")

UnaryOp(op, a) ==
  IF ~IsNum(a) THEN OpErr("TypeError")
  ELSE IF op = "+" THEN OpVal(a)
  ELSE IF a.d = 0 THEN OpVal(a)
  ELSE IF a.n = 0 /\ a.k = "float" THEN OpVal([a EXCEPT !.d = -a.d])
  ELSE OpVal([a EXCEPT !.n = -a.n])

\* Parse results: a syntax error, or the value / first run-time error of the
\* part parsed so far and the index of the next token.
PSyn == [syn |-> TRUE, rt |-> "", v |-> TupleVal, i |-> 0]

POk(v, i) == [syn |-> FALSE, rt |-> "", v |-> v, i |-> i]

\* Combine evaluated operands: the first run-time error in evaluation order.
PApply(a, b, i, res) ==
  IF a.rt # "" THEN [syn |-> FALSE, rt |-> a.rt, v |-> TupleVal, i |-> i]
  ELSE IF b.rt # "" THEN [syn |-> FALSE, rt |-> b.rt, v |-> TupleVal, i |-> i]
  ELSE [syn |-> FALSE, rt |-> res.rt, v |-> res.v, i |-> i]

At(ts, i, ks) == i <= Len(ts) /\ ts[i].k \in ks

\* Python's expression grammar as one recursive operator, Parse(rule, ts, x):
\* x is the index of the next token for the rules that start a phrase, and
\* the result parsed so far for the rules that extend one (the loops).
\*   sum:     term (('+'|'-') term)*
\*   term:    factor (('*'|'/'|'//'|'%') factor)*
\*   factor:  ('+'|'-') factor | power
\*   power:   primary ['**' factor]
\*   primary: atom ('(' [['*'|'**'] sum] ')')*
\*   atom:    NUMBER | '...' | '(' ')' | '(' sum ')'
RECURSIVE Parse(_, _, _)
Parse(rule, ts, x) ==
  CASE rule = "atom" ->
         IF x > Len(ts) THEN PSyn
         ELSE CASE ts[x].k \in {"int", "float"} ->
                     POk([k |-> ts[x].k, n |-> ts[x].n, d |-> ts[x].d], x + 1)
                [] ts[x].k = "..." -> POk(EllipsisVal, x + 1)
                [] ts[x].k = "(" ->
                     IF At(ts, x + 1, {")"}) THEN POk(TupleVal, x + 2)
                     ELSE LET r == Parse("sum", ts, x + 1)
                          IN IF r.syn THEN r
                             ELSE IF At(ts, r.i, {")"}) THEN [r EXCEPT !.i = r.i + 1]
                             ELSE PSyn
                [] OTHER -> PSyn
    \* a call trailer: no value of the evaluator is callable
    [] rule = "calls" ->
         IF x.syn \/ ~At(ts, x.i, {"("}) THEN x
         ELSE IF At(ts, x.i + 1, {")"})
              THEN Parse("calls", ts, PApply(x, x, x.i + 2, OpErr("TypeError")))
              ELSE LET j == IF At(ts, x.i + 1, {"*", "**"}) THEN x.i + 2 ELSE x.i + 1
                       a == Parse("sum", ts, j)
                   IN IF a.syn THEN a
                      ELSE IF At(ts, a.i, {")"})
                           THEN Parse("calls", ts,
                                      PApply(x, a, a.i + 1, OpErr("TypeError")))
                           ELSE PSyn
    [] rule = "primary" -> Parse("calls", ts, Parse("atom", ts, x))
    [] rule = "power" ->
         LET p == Parse("primary", ts, x)
         IN IF p.syn \/ ~At(ts, p.i, {"**"}) THEN p
            ELSE LET f == Parse("factor", ts, p.i + 1)
                 IN IF f.syn THEN f
                    ELSE PApply(p, f, f.i,
                           IF p.rt = "" /\ f.rt = "" THEN BinOp("**", p.v, f.v)
                           ELSE OpErr(""))
    [] rule = "factor" ->
         IF At(ts, x, {"+", "-"})
         THEN LET f == Parse("factor", ts, x + 1)
              IN IF f.syn THEN f
                 ELSE PApply(f, f, f.i,
                        IF f.rt = "" THEN UnaryOp(ts[x].k, f.v) ELSE OpErr(""))
         ELSE Parse("power", ts, x)
    [] rule = "terms" ->
         IF x.syn \/ ~At(ts, x.i, {"*", "/", "//", "%"}) THEN x
         ELSE LET f == Parse("factor", ts, x.i + 1)
              IN IF f.syn THEN f
                 ELSE Parse("terms", ts, PApply(x, f, f.i,
                        IF x.rt = "" /\ f.rt = "" THEN BinOp(ts[x.i].k, x.v, f.v)
                        ELSE OpErr("")))
    [] rule = "term" -> Parse("terms", ts, Parse("factor", ts, x))
    [] rule = "sums" ->
         IF x.syn \/ ~At(ts, x.i, {"+", "-"}) THEN x
         ELSE LET f == Parse("term", ts, x.i + 1)
              IN IF f.syn THEN f
                 ELSE Parse("sums", ts, PApply(x, f, f.i,
                        IF x.rt = "" /\ f.rt = "" THEN BinOp(ts[x.i].k, x.v, f.v)
                        ELSE OpErr("")))
    [] OTHER -> Parse("sums", ts, Parse("term", ts, x))

\* A grammar whose sums start with a factor instead of a term.
ParseSumOfFactors(ts, i) == Parse("sums", ts, Parse("factor", ts, i))

ParseSum(ts, i) == Parse("sum", ts, i)

\* eval(expression): [err |-> "" and the value, or the exception's class].
PyEval(cs) ==
  LET ts == Tokenize(cs)
      r == ParseSum(ts, 1)
  IN IF r.syn \/ r.i # Len(ts) + 1 THEN [err |-> "SyntaxError", v |-> TupleVal]
     ELSE [err |-> r.rt, v |-> r.v]

\* The decimal digits of the fraction part f/d of a float, d in {2, 4, 8}.
FracDigits(f, d) ==
  CASE d = 2 -> NatToStr(f * 5)
    [] d = 4 -> IF f = 1 THEN <<"2", "5">> ELSE <<"7", "5">>
    [] OTHER -> IF f = 1 THEN <<"1", "2", "5">>
                ELSE IF f = 3 THEN <<"3", "7", "5">>
                ELSE IF f = 5 THEN <<"6", "2", "5">> ELSE <<"8", "7", "5">>

\* str(result).  repr(float) is the shortest decimal that reads back as the
\* float: written out for the integral and the small dyadic values, kept as
\* the symbolic "float(n/d)" for the others.
ValueToStr(v) ==
  CASE v.k = "int" -> IntToStr(v.n)
    [] v.k = "tuple" -> <<"(", ")">>
    [] v.k = "ellipsis" -> <<"Ellipsis">>
    [] v.d = 0 -> <<"float(", "?", ")">>
    [] v.n = 0 /\ v.d = -1 -> <<"-", "0", ".", "0">>
    [] v.d = 1 -> IntToStr(v.n) \o <<".", "0">>
    [] v.d \in {2, 4, 8} ->
         (IF v.n < 0 THEN <<"-">> ELSE <<>>) \o NatToStr(Abs(v.n) \div v.d)
           \o <<".">> \o FracDigits(Abs(v.n) % v.d, v.d)
    [] OTHER -> <<"float(">> \o IntToStr(v.n) \o <<"/">> \o IntToStr(v.d) \o <<")">>

\* str(e) of the exception eval raised: the interpreter's message.
ExcMessage(exc) == <<"<", exc, ">">>

(***************************************************************************)
(* handle_calculator.  The result records whether eval() was reached.      *)
(***************************************************************************)
\* A whitelist that lets the letter x through.
AllowedCharsWithLetters == {"0", "1", "2", "3", "4", "5", "6", "7", "8", "9",
                            "+", "-", "*", "/", "(", ")", ".", "%", " ", "x"}

AllowedChars == {"0", "1", "2", "3", "4", "5", "6", "7", "8", "9",
                 "+", "-", "*", "/", "(", ")", ".", "%", " "}

\* f"{x}" of an argument value.
ArgToStr(v) ==
  CASE v.t = "str" -> v.s
    [] v.t = "int" -> IntToStr(v.i)
    [] OTHER -> IF v.b THEN <<"True">> ELSE <<"False">>

CalculatorNoExpression ==
  Failed("MissingParameter", <<"Error:", "No", "expression", "provided">>)

CalculatorInvalidChars ==
  Failed("InvalidExpression", <<"Error:", "Expression", "contains", "invalid", "characters">>)

CalculatorResult(expression, v) ==
  Returned(<<"Result:">> \o expression \o <<"=">> \o ValueToStr(v))

\* The calculator without its except clause.
CalculatorExceptPropagates(expression, exc) == Raised(exc)

\* The except clause of handle_calculator.
CalculatorExcept(expression, exc) ==
  Failed(exc, <<"Error", "calculating", "'">> \o ArgToStr(expression)
             \o <<"':">> \o ExcMessage(exc))

handle_calculator(arguments) ==
  LET expression == ArgGet(arguments, "expression", StrV(<<>>))
      ev == PyEval(expression.s)
  IN IF ~Truthy(expression)
     THEN [out |-> CalculatorNoExpression, evaluated |-> FALSE]
     ELSE IF expression.t # "str"
     \* iterating a value that is not a str raises TypeError inside the try
     THEN [out |-> CalculatorExcept(expression, "TypeError"), evaluated |-> FALSE]
     ELSE IF ~(\A k \in DOMAIN expression.s : expression.s[k] \in AllowedChars)
     THEN [out |-> CalculatorInvalidChars, evaluated |-> FALSE]
     ELSE IF ev.err # ""
     THEN [out |-> CalculatorExcept(expression, ev.err), evaluated |-> TRUE]
     ELSE [out |-> CalculatorResult(expression.s, ev.v), evaluated |-> TRUE]

(***************************************************************************)
(* handle_text_analyzer.                                                   *)
(***************************************************************************)
WhitespaceChars == {" ", "\n", "\t"}

\* len(text.split(' ')): one more than the number of spaces.
WordCountBySpaces(text) == Cardinality({ k \in DOMAIN text : text[k] = " " }) + 1

\* len(text.split()): the maximal runs of non-whitespace characters.
WordCount(text) ==
  Cardinality({ k \in DOMAIN text :
                  /\ text[k] \notin WhitespaceChars
                  /\ (k = 1 \/ text[k - 1] \in WhitespaceChars) })

\* text.count(c)
CountChar(text, c) == Cardinality({ k \in DOMAIN text : text[k] = c })

\* text.split('\n\n'): left to right, separators do not overlap.
RECURSIVE SplitBlank(_, _, _)
SplitBlank(text, i, cur) ==
  IF i > Len(text) THEN <<cur>>
  ELSE IF text[i] = "\n" /\ i + 1 <= Len(text) /\ text[i + 1] = "\n"
       THEN <<cur>> \o SplitBlank(text, i + 2, <<>>)
       ELSE SplitBlank(text, i + 1, Append(cur, text[i]))

\* p.strip() is non-empty
StripNonEmpty(p) == \E k \in DOMAIN p : p[k] \notin WhitespaceChars

ParagraphCount(text) ==
  LET ps == SplitBlank(text, 1, <<>>)
  IN Cardinality({ k \in DOMAIN ps : StripNonEmpty(ps[k]) })

\* The quotient cut after its first decimal instead of rounded.
FormatTruncated(a, b) ==
  NatToStr(((10 * a) \div b) \div 10) \o <<".">> \o NatToStr(((10 * a) \div b) % 10)

\* f"{a / b:.1f}" for integers a >= 0, b > 0: one decimal, the float's exact
\* ties rounded half to even.  A decimal tie whose quotient is not a binary
\* fraction is rounded by the float's error, which the model leaves open
\* ("?" stands for the last digit).
FormatOneDecimal(a, b) ==
  LET tenths == (10 * a) \div b
      rem2 == 2 * ((10 * a) % b)
      q == Norm(a, b)
      up == rem2 > b \/ (rem2 = b /\ tenths % 2 = 1)
      r == IF up THEN tenths + 1 ELSE tenths
  IN IF rem2 = b /\ ~IsPow2(q.d)
     THEN NatToStr(tenths \div 10) \o <<".", "?">>
     ELSE NatToStr(r \div 10) \o <<".">> \o NatToStr(r % 10)

Max(a, b) == IF a >= b THEN a ELSE b

TextAnalyzerNoText == Failed("MissingParameter", <<"Error:", "No", "text", "provided">>)

TextAnalysis(text) ==
  LET word_count == WordCount(text)
      sentence_count == CountChar(text, ".") + CountChar(text, "!")
                          + CountChar(text, "?")
  IN <<"Text", "Analysis", "Results:", "\n">>
     \o <<"-", "Character", "count:">> \o NatToStr(Len(text)) \o <<"\n">>
     \o <<"-", "Character", "count", "(no", "spaces):">>
     \o NatToStr(Len(text) - CountChar(text, " ")) \o <<"\n">>
     \o <<"-", "Word", "count:">> \o NatToStr(word_count) \o <<"\n">>
     \o <<"-", "Sentence", "count:">> \o NatToStr(sentence_count) \o <<"\n">>
     \o <<"-", "Paragraph", "count:">> \o NatToStr(ParagraphCount(text)) \o <<"\n">>
     \o <<"-", "Average", "words", "per", "sentence:">>
     \o FormatOneDecimal(word_count, Max(sentence_count, 1)) \o <<"\n">>

\* text.split() on a value that is not a str: no try block surrounds it.
TextAnalyzerNotStr == Raised("AttributeError")

handle_text_analyzer(arguments) ==
  LET text == ArgGet(arguments, "text", StrV(<<>>))
  IN IF ~Truthy(text) THEN TextAnalyzerNoText
     ELSE IF text.t # "str" THEN TextAnalyzerNotStr
     ELSE Returned(TextAnalysis(text.s))

(***************************************************************************)
(* handle_list_files, over a fixed file system.  os.listdir returns the    *)
(* entries in an arbitrary order (listing), or raises (failed).            *)
(***************************************************************************)
\* The file names of the model, in the order of Python's str comparison
\* (by code point: upper case before lower case).
FileNames == <<"B.txt", "a.txt", "b">>

NameRank(n) == CHOOSE k \in DOMAIN FileNames : FileNames[k] = n

Paths == {".", "empty", "notes.txt", "locked", "nowhere"}

\* What os.path.exists / os.path.isdir / os.listdir see at each path.
FileSystem(path) ==
  CASE path = "." -> [exists |-> TRUE, isdir |-> TRUE, readable |-> TRUE,
                      entries |-> {"B.txt", "a.txt", "b"}]
    [] path = "empty" -> [exists |-> TRUE, isdir |-> TRUE, readable |-> TRUE,
                          entries |-> {}]
    [] path = "notes.txt" -> [exists |-> TRUE, isdir |-> FALSE,
                              readable |-> TRUE, entries |-> {}]
    [] path = "locked" -> [exists |-> TRUE, isdir |-> TRUE, readable |-> FALSE,
                           entries |-> {}]
    [] OTHER -> [exists |-> FALSE, isdir |-> FALSE, readable |-> FALSE,
                 entries |-> {}]

\* The orders in which os.listdir may return a directory's entries.
Listings(entries) ==
  { l \in [1..Cardinality(entries) -> entries] :
      \A a, b \in DOMAIN l : a # b => l[a] # l[b] }

\* files.sort(): insertion of each element at its place.
RECURSIVE SortNames(_)
InsertName(n, sorted) ==
  LET before == { k \in DOMAIN sorted : NameRank(sorted[k]) <= NameRank(n) }
      cut == Cardinality(before)
  IN SubSeq(sorted, 1, cut) \o <<n>> \o SubSeq(sorted, cut + 1, Len(sorted))

\* The entries left in the order os.listdir returned them.
Unsorted(l) == l

SortNames(l) ==
  IF l = <<>> THEN <<>> ELSE InsertName(Head(l), SortNames(Tail(l)))

RECURSIVE FileList(_)
FileList(files) ==
  IF files = <<>> THEN <<>>
  ELSE <<"-", Head(files)>>
       \o (IF Len(files) > 1 THEN <<"\n">> ELSE <<>>) \o FileList(Tail(files))

\* The message of a missing path worded like that of a file.
ListFilesNotExistAsNotDir(path) ==
  Failed("PathNotFound", <<"Error:", "Path", "'">> \o path
                          \o <<"'", "is", "not", "a", "directory">>)

ListFilesNotExist(path) ==
  Failed("PathNotFound", <<"Error:", "Path", "'">> \o path \o <<"'", "does", "not", "exist">>)

\* The not-a-directory message without its "Error:" prefix.
ListFilesNotDirPlain(path) ==
  Failed("NotADirectory", <<"Path", "'">> \o path
                           \o <<"'", "is", "not", "a", "directory">>)

ListFilesNotDir(path) ==
  Failed("NotADirectory", <<"Error:", "Path", "'">> \o path
             \o <<"'", "is", "not", "a", "directory">>)

\* The except clause of handle_list_files.
ListFilesExcept(path, exc) ==
  Failed(exc, <<"Error", "listing", "files", "in", "'">> \o path \o <<"':">>
             \o ExcMessage(exc))

ListFilesEmpty(path) ==
  Returned(<<"Directory", "'">> \o path \o <<"'", "is", "empty">>)

ListFilesOk(path, files) ==
  Returned(<<"Files", "in", "'">> \o path \o <<"':", "\n">> \o FileList(files))

\* listing: the order os.listdir returned, used when the path is a readable
\* directory.
handle_list_files(arguments, listing) ==
  LET path == ArgGet(arguments, "path", StrV(<<".">>)).s
      node == FileSystem(IF Len(path) = 1 THEN path[1] ELSE "")
      files == SortNames(listing)
  IN IF ~node.exists THEN ListFilesNotExist(path)
     ELSE IF ~node.isdir THEN ListFilesNotDir(path)
     ELSE IF ~node.readable THEN ListFilesExcept(path, "PermissionError")
     ELSE IF files = <<>> THEN ListFilesEmpty(path)
     ELSE ListFilesOk(path, files)

(***************************************************************************)
(* Formatting helpers of the reports.                                      *)
(***************************************************************************)
None == <<>>

Some(v) == <<v>>

IsSet(o) == o # <<>>

\* str.upper() and str.title(), chunk by chunk, on the words of the model.
UpperChunk(c) ==
  CASE c = "Oslo" -> "OSLO"
    [] c = "Norway" -> "NORWAY"
    [] c = "Zzz" -> "ZZZ"
    [] OTHER -> c

Upper(str) == [k \in DOMAIN str |-> UpperChunk(str[k])]

TitleChunk(c) ==
  CASE c = "active" -> "Active"
    [] c = "scheduled" -> "Scheduled"
    [] OTHER -> c

Title(str) == [k \in DOMAIN str |-> TitleChunk(str[k])]

\* "=" * n
Rule(n) == <<"=" , "*">> \o NatToStr(n)

\* f"{x:.4f}" of a coordinate; the model holds coordinates in units of
\* 1/10000 degree, so the four decimals are exact.
FormatCoord(x) ==
  LET a == Abs(x)
      frac == NatToStr(a % 10000)
      pad == [k \in 1..(4 - Len(frac)) |-> "0"]
  IN (IF x < 0 THEN <<"-">> ELSE <<>>) \o NatToStr(a \div 10000) \o <<".">>
       \o pad \o frac

(***************************************************************************)
(* get_weather_description                                                 *)
(***************************************************************************)
\* The table without its last entry.
WeatherCodesWithout99 ==
  {0, 1, 2, 3, 45, 48, 51, 53, 55, 61, 63, 65, 71, 73, 75, 95, 96}

WeatherCodes ==
  {0, 1, 2, 3, 45, 48, 51, 53, 55, 61, 63, 65, 71, 73, 75, 95, 96, 99}

WeatherPhrase(code) ==
  CASE code = 0 -> <<"Clear", "sky">>
    [] code = 1 -> <<"Mainly", "clear">>
    [] code = 2 -> <<"Partly", "cloudy">>
    [] code = 3 -> <<"Overcast">>
    [] code = 45 -> <<"Fog">>
    [] code = 48 -> <<"Depositing", "rime", "fog">>
    [] code = 51 -> <<"Light", "drizzle">>
    [] code = 53 -> <<"Moderate", "drizzle">>
    [] code = 55 -> <<"Dense", "drizzle">>
    [] code = 61 -> <<"Slight", "rain">>
    [] code = 63 -> <<"Moderate", "rain">>
    [] code = 65 -> <<"Heavy", "rain">>
    [] code = 71 -> <<"Slight", "snow", "fall">>
    [] code = 73 -> <<"Moderate", "snow", "fall">>
    [] code = 75 -> <<"Heavy", "snow", "fall">>
    [] code = 95 -> <<"Thunderstorm">>
    [] code = 96 -> <<"Thunderstorm", "with", "slight", "hail">>
    [] OTHER -> <<"Thunderstorm", "with", "heavy", "hail">>

get_weather_description(weather_code) ==
  IF weather_code \in WeatherCodes THEN WeatherPhrase(weather_code)
  ELSE <<"Unknown", "weather", "(code:">> \o IntToStr(weather_code) \o <<")">>

(***************************************************************************)
(* format_weather_response.  A formatter returns its text, or raises.      *)
(***************************************************************************)
FmtOk(text) == [raised |-> FALSE, exc |-> "", text |-> text]

FmtRaise(exc) == [raised |-> TRUE, exc |-> exc, text |-> <<>>]

\* daily.get(key, [None])[i] with i counted from 1: the element (None when
\* null), or out of range.
DailyAt(arr, i) ==
  LET a == IF IsSet(arr) THEN arr[1] ELSE <<None>>
  IN IF i > Len(a) THEN [oob |-> TRUE, v |-> None] ELSE [oob |-> FALSE, v |-> a[i]]

\* date.split('T')[0] if 'T' in date else date
DatePart(date) ==
  IF Contains(date, "T")
  THEN SubSeq(date, 1, (CHOOSE k \in DOMAIN date :
                          date[k] = "T" /\ \A j \in 1..(k - 1) : date[j] # "T") - 1)
  ELSE date

WeatherDay(daily, i) ==
  LET max_temp == DailyAt(daily.temperature_2m_max, i)
      min_temp == DailyAt(daily.temperature_2m_min, i)
      weather_code == DailyAt(daily.weather_code, i)
      precipitation == DailyAt(daily.precipitation_sum, i)
      wind_speed == DailyAt(daily.wind_speed_10m_max, i)
  IN IF max_temp.oob \/ min_temp.oob \/ weather_code.oob \/ precipitation.oob
        \/ wind_speed.oob
     THEN FmtRaise("IndexError")
     ELSE FmtOk(
       <<"\n">> \o DatePart(daily.time[1][i]) \o <<":", "\n">>
       \o (IF IsSet(weather_code.v)
           THEN get_weather_description(weather_code.v[1]) \o <<"\n">> ELSE <<>>)
       \o (IF IsSet(max_temp.v) /\ IsSet(min_temp.v)
           THEN IntToStr(min_temp.v[1]) \o <<"C", "to">> \o IntToStr(max_temp.v[1])
                  \o <<"C", "\n">>
           ELSE <<>>)
       \o (IF IsSet(precipitation.v) /\ precipitation.v[1] > 0
           THEN <<"Precipitation:">> \o IntToStr(precipitation.v[1]) \o <<"mm", "\n">>
           ELSE <<>>)
       \o (IF IsSet(wind_speed.v)
           THEN <<"Max", "wind:">> \o IntToStr(wind_speed.v[1]) \o <<"km/h", "\n">>
           ELSE <<>>))

RECURSIVE WeatherDays(_, _)
WeatherDays(daily, i) ==
  IF i > Len(daily.time[1]) THEN FmtOk(<<>>)
  ELSE LET d == WeatherDay(daily, i)
           rest == WeatherDays(daily, i + 1)
       IN IF d.raised THEN d
          ELSE IF rest.raised THEN rest
          ELSE FmtOk(d.text \o rest.text)

WeatherCurrent(current) ==
  <<"CURRENT", "CONDITIONS:", "\n">>
  \o (IF IsSet(current.temperature_2m)
      THEN <<"Temperature:">> \o IntToStr(current.temperature_2m[1]) \o <<"C", "\n">>
      ELSE <<>>)
  \o (IF IsSet(current.relative_humidity_2m)
      THEN <<"Humidity:">> \o IntToStr(current.relative_humidity_2m[1]) \o <<"%", "\n">>
      ELSE <<>>)
  \o (IF IsSet(current.weather_code)
      THEN <<"Conditions:">> \o get_weather_description(current.weather_code[1])
             \o <<"\n">>
      ELSE <<>>)
  \o (IF IsSet(current.wind_speed_10m)
      THEN <<"Wind:">> \o IntToStr(current.wind_speed_10m[1]) \o <<"km/h">>
             \o (IF IsSet(current.wind_direction_10m)
                 THEN <<"from">> \o IntToStr(current.wind_direction_10m[1]) \o <<"deg">>
                 ELSE <<>>)
             \o <<"\n">>
      ELSE <<>>)

format_weather_response(weather_data, city_name, country, include_hourly) ==
  LET daily == weather_data.daily
      head == <<"WEATHER", "FOR">> \o Upper(city_name)
              \o (IF country # <<>> THEN <<",">> \o Upper(country) ELSE <<>>)
              \o <<"\n">> \o Rule(50) \o <<"\n", "\n">>
              \o WeatherCurrent(weather_data.current)
      days == WeatherDays(daily, 1)
  IN IF IsSet(daily.time) /\ daily.time[1] # <<>>
     THEN IF days.raised THEN days
          ELSE FmtOk(head \o <<"\n", "DAILY", "FORECAST:", "\n">> \o days.text)
     ELSE FmtOk(head)

(***************************************************************************)
(* format_flight_response.  A sub-object of a flight record is absent,     *)
(* null, or an object whose fields may be absent.                          *)
(***************************************************************************)
Absent(f) == [st |-> "absent", f |-> f]

Null(f) == [st |-> "null", f |-> f]

Obj(f) == [st |-> "obj", f |-> f]

\* flight.get(key, {}) followed by .get on it: None has no .get
IsNull(flight) ==
  \E o \in {flight.flight, flight.departure, flight.arrival, flight.aircraft,
            flight.airline} : o.st = "null"

\* sub.get(field): the field of an object, None for an absent object.
Field(o, f) == IF o.st = "obj" THEN o.f[f] ELSE None

FlightEntry(flight, i) ==
  LET number == Field(flight.flight, "number")
      status == Field(flight.flight, "status")
      dep_airport == Field(flight.departure, "airport")
      dep_scheduled == Field(flight.departure, "scheduled")
      arr_airport == Field(flight.arrival, "airport")
      arr_scheduled == Field(flight.arrival, "scheduled")
      registration == Field(flight.aircraft, "registration")
      iata == Field(flight.aircraft, "iata")
      name == Field(flight.airline, "name")
  IN <<"FLIGHT">> \o NatToStr(i) \o <<":", "\n">>
     \o (IF IsSet(number)
         THEN <<"Flight:">> \o number[1]
                \o (IF IsSet(name) THEN <<"(">> \o name[1] \o <<")">> ELSE <<>>)
                \o <<"\n">>
         ELSE <<>>)
     \o <<"Route:">>
     \o (IF IsSet(dep_airport) THEN dep_airport[1] ELSE <<"Unknown">>)
     \o <<"->">>
     \o (IF IsSet(arr_airport) THEN arr_airport[1] ELSE <<"Unknown">>)
     \o <<"\n">>
     \o (IF IsSet(status)
         THEN (IF status[1] = <<"active">> THEN <<"(green)">> ELSE <<"(yellow)">>)
                \o <<"Status:">> \o Title(status[1]) \o <<"\n">>
         ELSE <<>>)
     \o (IF IsSet(registration)
         THEN <<"Aircraft:">> \o registration[1]
                \o (IF IsSet(iata) THEN <<"(">> \o iata[1] \o <<")">> ELSE <<>>)
                \o <<"\n">>
         ELSE <<>>)
     \o (IF IsSet(dep_scheduled)
         THEN <<"Departure:">> \o dep_scheduled[1] \o <<"\n">> ELSE <<>>)
     \o (IF IsSet(arr_scheduled)
         THEN <<"Arrival:">> \o arr_scheduled[1] \o <<"\n">> ELSE <<>>)
     \o <<"\n">>

FlightShown == 10

\* The flight formatter enumerating every record of the payload.
RECURSIVE FlightEntriesAll(_, _)
FlightEntriesAll(flights, i) ==
  IF i > Len(flights) THEN FmtOk(<<>>)
  ELSE IF IsNull(flights[i]) THEN FmtRaise("AttributeError")
  ELSE LET rest == FlightEntriesAll(flights, i + 1)
       IN IF rest.raised THEN rest
          ELSE FmtOk(FlightEntry(flights[i], i) \o rest.text)

RECURSIVE FlightEntries(_, _)
FlightEntries(flights, i) ==
  IF i > Len(flights) \/ i > FlightShown THEN FmtOk(<<>>)
  ELSE IF IsNull(flights[i]) THEN FmtRaise("AttributeError")
  ELSE LET rest == FlightEntries(flights, i + 1)
       IN IF rest.raised THEN rest
          ELSE FmtOk(FlightEntry(flights[i], i) \o rest.text)

format_flight_response(flight_data, city_name, country, lat, lon, radius) ==
  LET head == <<"FLIGHT", "DATA", "NEAR">> \o Upper(city_name)
              \o (IF country # <<>> THEN <<",">> \o Upper(country) ELSE <<>>)
              \o <<"(">> \o ArgToStr(radius) \o <<"km", "radius)", "\n">>
              \o Rule(50) \o <<"\n", "\n">>
      flights == IF IsSet(flight_data.data) THEN flight_data.data[1] ELSE <<>>
      entries == FlightEntries(flights, 1)
  IN IF flights = <<>>
     THEN FmtOk(head \o <<"No", "flight", "data", "available.">>)
     ELSE IF entries.raised THEN entries
     ELSE FmtOk(head \o <<"SHOWING">> \o NatToStr(Len(flights))
                     \o <<"FLIGHTS:", "\n", "\n">> \o entries.text
                     \o <<"Data", "provided", "by", "AviationStack", "API", "\n">>
                     \o <<"Center", "coordinates:">> \o FormatCoord(lat) \o <<",">>
                     \o FormatCoord(lon) \o <<"\n">>
                     \o <<"Use", "these", "coordinates", "for", "map",
                          "visualization">>)

(***************************************************************************)
(* format_airport_response                                                 *)
(***************************************************************************)
AirportEntry(airport, i) ==
  <<"AIRPORT">> \o NatToStr(i) \o <<":", "\n">>
  \o (IF IsSet(airport.airport_name)
      THEN <<"Name:">> \o airport.airport_name[1] \o <<"\n">> ELSE <<>>)
  \o (IF IsSet(airport.iata_code)
      THEN <<"IATA", "Code:">> \o airport.iata_code[1]
             \o (IF IsSet(airport.icao_code)
                 THEN <<"/", "ICAO:">> \o airport.icao_code[1] ELSE <<>>)
             \o <<"\n">>
      ELSE <<>>)
  \o (IF IsSet(airport.city_iata_code)
      THEN <<"City:">> \o airport.city_iata_code[1]
             \o (IF IsSet(airport.country_name)
                 THEN <<",">> \o airport.country_name[1] ELSE <<>>)
             \o <<"\n">>
      ELSE <<>>)
  \o (IF IsSet(airport.latitude) /\ IsSet(airport.longitude)
      THEN <<"Coordinates:">> \o airport.latitude[1] \o <<",">>
             \o airport.longitude[1] \o <<"\n">>
      ELSE <<>>)
  \o (IF IsSet(airport.timezone)
      THEN <<"Timezone:">> \o airport.timezone[1] \o <<"\n">> ELSE <<>>)
  \o <<"\n">>

RECURSIVE AirportEntries(_, _)
AirportEntries(airports, i) ==
  IF i > Len(airports) THEN <<>>
  ELSE AirportEntry(airports[i], i) \o AirportEntries(airports, i + 1)

format_airport_response(airport_data, location) ==
  LET head == <<"AIRPORTS", "NEAR">> \o Upper(location) \o <<"\n">>
              \o Rule(40) \o <<"\n", "\n">>
      airports == IF IsSet(airport_data.data) THEN airport_data.data[1] ELSE <<>>
  IN IF airports = <<>>
     THEN head \o <<"No", "airports", "found", "for", "'">> \o location
            \o <<"'.", "\n">>
     ELSE head \o <<"FOUND">> \o NatToStr(Len(airports))
            \o <<"AIRPORTS:", "\n", "\n">> \o AirportEntries(airports, 1)
            \o <<"Data", "provided", "by", "AviationStack", "API">>

(***************************************************************************)
(* The remote handlers as coroutines.  A handler runs until it awaits a    *)
(* provider's response or returns.  The machine record m holds the locals  *)
(* of the coroutines of the call in progress:                              *)
(*   pc            what the call awaits: "geocode", "weather", "airports", *)
(*                 "flights", or "done"                                    *)
(*   frame         the handler that awaits                                 *)
(*   hargs         that handler's arguments                                *)
(*   api_key       its local api_key                                       *)
(*   location_data its local location_data                                 *)
(*   cloc, result  location_data and result of handle_get_location_data    *)
(*   ret           what call_tool returned or raised                       *)
(* and the history of the call:                                            *)
(*   log           the requests issued, the reads of the credential and    *)
(*                 the eval() calls, in order                              *)
(*   inflight      the requests issued and not yet answered                *)
(*   steps         the sub-handler results handle_get_location_data got    *)
(***************************************************************************)
NoLocation == [name |-> None, country |-> None, latitude |-> None,
               longitude |-> None]

NoRet == [raised |-> FALSE, exc |-> "", kind |-> "", blocks |-> <<>>]

NoArgs == [k \in {} |-> StrV(<<>>)]

IdleMachine ==
  [pc |-> "idle", frame |-> "", hargs |-> NoArgs, api_key |-> "",
   location_data |-> NoLocation, cloc |-> NoLocation, result |-> <<>>,
   ret |-> NoRet, log |-> <<>>, inflight |-> {}, steps |-> <<>>]

Event(ev, svc, q, lat, lon, num, hourly, key) ==
  [ev |-> ev, svc |-> svc, q |-> q, lat |-> lat, lon |-> lon, num |-> num,
   hourly |-> hourly, key |-> key]

\* os.getenv("AVIATIONSTACK_API_KEY") returned env
GetenvEvent(env) == Event("getenv", "", StrV(<<>>), 0, 0, IntV(0), FALSE, env)

EvalEvent == Event("eval", "", StrV(<<>>), 0, 0, IntV(0), FALSE, "")

\* session.get(url, params): the request goes out and the coroutine awaits.
Request(m, e) ==
  [m EXCEPT !.pc = e.svc, !.log = Append(@, e), !.inflight = @ \cup {e.svc}]

\* A step of a handler: it returned (done, out) or it awaits (m.pc).
StepDone(m, out) == [done |-> TRUE, out |-> out, m |-> m]

StepAwait(m) == [done |-> FALSE, out |-> NoRet, m |-> m]

(***************************************************************************)
(* get_location_coordinates                                                *)
(***************************************************************************)
GeocodeRequest(location) ==
  Event("request", "geocode", location, 0, 0, IntV(1), FALSE, "")

\* The geocoder reading the body whatever the status is.
CoordinatesOfAnyStatus(resp) ==
  IF resp.results = <<>> THEN None ELSE Some(resp.results[1])

\* The value returned for a provider response: None unless the status is
\* 200 and "results" is a non-empty list; transport failures are swallowed.
get_location_coordinates(resp) ==
  IF resp.kind # "ok" THEN None
  ELSE IF resp.results = <<>> THEN None
  ELSE Some(resp.results[1])

NoLocationProvided ==
  Failed("MissingParameter", <<"Error:", "No", "location", "provided">>)

LocationNotFound(location) ==
  Failed("NotFound", <<"Error:", "Location", "'">> \o ArgToStr(location)
             \o <<"'", "not", "found.", "Please", "try", "a", "different",
                  "city", "name.">>)

MissingApiKey ==
  Failed("MissingCredential", <<"Error:", "AviationStack", "API", "key", "not", "found.",
             "Please", "set", "AVIATIONSTACK_API_KEY", "environment",
             "variable.">>)

\* location_data["latitude"], ["longitude"], ["name"]: KeyError when absent
HasCoordinates(loc) ==
  IsSet(loc.latitude) /\ IsSet(loc.longitude) /\ IsSet(loc.name)

Country(loc) == IF IsSet(loc.country) THEN loc.country[1] ELSE <<>>

(***************************************************************************)
(* handle_get_weather                                                      *)
(***************************************************************************)
WeatherStatusError(code) ==
  Failed("ProviderError", <<"Error:", "Could", "not", "fetch", "weather", "data", "(status:">>
             \o IntToStr(code) \o <<")">>)

\* get_weather without its except clause: the exception leaves the handler.
WeatherExceptPropagates(location, exc) == Raised(exc)

\* The except clause of handle_get_weather.
WeatherExcept(location, exc) ==
  Failed(exc, <<"Error", "getting", "weather", "for", "'">> \o ArgToStr(location)
             \o <<"':">> \o ExcMessage(exc))

WeatherStart(m, arguments) ==
  LET location == ArgGet(arguments, "location", StrV(<<>>))
      m1 == [m EXCEPT !.frame = "get_weather", !.hargs = arguments]
  IN IF ~Truthy(location) THEN StepDone(m1, NoLocationProvided)
     ELSE StepAwait(Request(m1, GeocodeRequest(location)))

WeatherOnGeocode(m, resp) ==
  LET location == m.hargs["location"]
      days == ArgGet(m.hargs, "days", IntV(3))
      include_hourly == ArgGet(m.hargs, "include_hourly", BoolV(FALSE))
      found == get_location_coordinates(resp)
      loc == found[1]
  IN IF ~IsSet(found) THEN StepDone(m, LocationNotFound(location))
     ELSE IF ~HasCoordinates(loc) THEN StepDone(m, WeatherExcept(location, "KeyError"))
     ELSE StepAwait(Request([m EXCEPT !.location_data = loc],
            Event("request", "weather", StrV(<<>>), loc.latitude[1],
                  loc.longitude[1], days, Truthy(include_hourly), "")))

WeatherOnResponse(m, resp) ==
  LET location == m.hargs["location"]
      include_hourly == ArgGet(m.hargs, "include_hourly", BoolV(FALSE))
      loc == m.location_data
      text == format_weather_response(resp.body, loc.name[1], Country(loc),
                                      Truthy(include_hourly))
  IN CASE resp.kind = "fail" -> StepDone(m, WeatherExcept(location, "ClientError"))
       [] resp.kind = "status" -> StepDone(m, WeatherStatusError(resp.code))
       [] text.raised -> StepDone(m, WeatherExcept(location, text.exc))
       [] OTHER -> StepDone(m, Returned(text.text))

(***************************************************************************)
(* handle_get_flights_by_location                                          *)
(***************************************************************************)
\* The flights status error without the status.
FlightStatusErrorNoCode(code) ==
  Failed("ProviderError", <<"Error:", "Could", "not", "fetch", "flight", "data">>)

FlightStatusError(code) ==
  Failed("ProviderError", <<"Error:", "Could", "not", "fetch", "flight", "data", "(status:">>
             \o IntToStr(code) \o <<")">>)

\* The except clause of handle_get_flights_by_location.
FlightExcept(location, exc) ==
  Failed(exc, <<"Error", "getting", "flight", "data", "for", "'">>
             \o ArgToStr(location) \o <<"':">> \o ExcMessage(exc))

\* env: the value of AVIATIONSTACK_API_KEY when the handler runs
\* The flights handler resolving the location before it reads the credential.
FlightStartGeocodesFirst(m, arguments, env) ==
  LET location == ArgGet(arguments, "location", StrV(<<>>))
      m1 == [m EXCEPT !.frame = "get_flights_by_location", !.hargs = arguments]
      m2 == [m1 EXCEPT !.api_key = env, !.log = Append(@, GetenvEvent(env))]
  IN IF ~Truthy(location) THEN StepDone(m1, NoLocationProvided)
     ELSE StepAwait(Request(m2, GeocodeRequest(location)))

\* The flights handler using the credential an earlier step read.
FlightStartCached(m, arguments, env) ==
  LET key == IF m.api_key # "" THEN m.api_key ELSE env
      location == ArgGet(arguments, "location", StrV(<<>>))
      m1 == [m EXCEPT !.frame = "get_flights_by_location", !.hargs = arguments]
      m2 == [m1 EXCEPT !.api_key = key, !.log = Append(@, GetenvEvent(key))]
  IN IF ~Truthy(location) THEN StepDone(m1, NoLocationProvided)
     ELSE IF key = "" THEN StepDone(m2, MissingApiKey)
     ELSE StepAwait(Request(m2, GeocodeRequest(location)))

FlightStart(m, arguments, env) ==
  LET location == ArgGet(arguments, "location", StrV(<<>>))
      m1 == [m EXCEPT !.frame = "get_flights_by_location", !.hargs = arguments]
      m2 == [m1 EXCEPT !.api_key = env, !.log = Append(@, GetenvEvent(env))]
  IN IF ~Truthy(location) THEN StepDone(m1, NoLocationProvided)
     ELSE IF env = "" THEN StepDone(m2, MissingApiKey)
     ELSE StepAwait(Request(m2, GeocodeRequest(location)))

\* The flights handler sending the resolved coordinates to the provider.
FlightOnGeocodeWithCoordinates(m, resp) ==
  LET location == m.hargs["location"]
      limit == ArgGet(m.hargs, "limit", IntV(20))
      found == get_location_coordinates(resp)
      loc == found[1]
  IN IF ~IsSet(found) THEN StepDone(m, LocationNotFound(location))
     ELSE IF ~HasCoordinates(loc) THEN StepDone(m, FlightExcept(location, "KeyError"))
     ELSE StepAwait(Request([m EXCEPT !.location_data = loc],
            Event("request", "flights", StrV(<<>>), loc.latitude[1],
                  loc.longitude[1], limit, FALSE, m.api_key)))

FlightOnGeocode(m, resp) ==
  LET location == m.hargs["location"]
      limit == ArgGet(m.hargs, "limit", IntV(20))
      found == get_location_coordinates(resp)
      loc == found[1]
  IN IF ~IsSet(found) THEN StepDone(m, LocationNotFound(location))
     ELSE IF ~HasCoordinates(loc) THEN StepDone(m, FlightExcept(location, "KeyError"))
     ELSE StepAwait(Request([m EXCEPT !.location_data = loc],
            Event("request", "flights", StrV(<<>>), 0, 0, limit, FALSE,
                  m.api_key)))

FlightOnResponse(m, resp) ==
  LET location == m.hargs["location"]
      radius == ArgGet(m.hargs, "radius", IntV(100))
      loc == m.location_data
      text == format_flight_response(resp.body, loc.name[1], Country(loc),
                                     loc.latitude[1], loc.longitude[1], radius)
  IN CASE resp.kind = "fail" -> StepDone(m, FlightExcept(location, "ClientError"))
       [] resp.kind = "status" -> StepDone(m, FlightStatusError(resp.code))
       [] text.raised -> StepDone(m, FlightExcept(location, text.exc))
       [] OTHER -> StepDone(m, Returned(text.text))

(***************************************************************************)
(* handle_get_airport_info                                                 *)
(***************************************************************************)
AirportStatusError(code) ==
  Failed("ProviderError", <<"Error:", "Could", "not", "fetch", "airport", "data", "(status:">>
             \o IntToStr(code) \o <<")">>)

\* The except clause of handle_get_airport_info.
AirportExcept(location, exc) ==
  Failed(exc, <<"Error", "getting", "airport", "info", "for", "'">>
             \o ArgToStr(location) \o <<"':">> \o ExcMessage(exc))

AirportLimit == 10

AirportStart(m, arguments, env) ==
  LET location == ArgGet(arguments, "location", StrV(<<>>))
      m1 == [m EXCEPT !.frame = "get_airport_info", !.hargs = arguments]
      m2 == [m1 EXCEPT !.api_key = env, !.log = Append(@, GetenvEvent(env))]
  IN IF ~Truthy(location) THEN StepDone(m1, NoLocationProvided)
     ELSE IF env = "" THEN StepDone(m2, MissingApiKey)
     ELSE StepAwait(Request(m2,
            Event("request", "airports", location, 0, 0, IntV(AirportLimit),
                  FALSE, env)))

AirportOnResponse(m, resp) ==
  LET location == m.hargs["location"]
  IN CASE resp.kind = "fail" -> StepDone(m, AirportExcept(location, "ClientError"))
       [] resp.kind = "status" -> StepDone(m, AirportStatusError(resp.code))
       \* location.upper() on a value that is not a str
       [] location.t # "str" -> StepDone(m, AirportExcept(location, "AttributeError"))
       [] OTHER -> StepDone(m, Returned(format_airport_response(resp.body, location.s)))

(***************************************************************************)
(* handle_get_location_data: the composite handler.  args are its own      *)
(* arguments; each sub-handler is awaited in turn, and a sub-handler that  *)
(* returns without awaiting is followed at once by the next step.          *)
(***************************************************************************)
\* The except clause of handle_get_location_data.
CompExcept(location, exc) ==
  Failed(exc, <<"Error", "getting", "comprehensive", "data", "for", "'">>
             \o ArgToStr(location) \o <<"':">> \o ExcMessage(exc))

CompHeader(loc) ==
  <<"COMPREHENSIVE", "DATA", "FOR">> \o Upper(loc.name[1])
  \o (IF Country(loc) # <<>> THEN <<",">> \o Upper(Country(loc)) ELSE <<>>)
  \o <<"\n">> \o Rule(60) \o <<"\n", "\n">>
  \o <<"COORDINATES:">> \o FormatCoord(loc.latitude[1]) \o <<",">>
  \o FormatCoord(loc.longitude[1]) \o <<"\n", "\n">>

CompFooter(loc) ==
  <<"MAP", "INTEGRATION", "READY", "\n">>
  \o <<"Use", "coordinates", "(">> \o FormatCoord(loc.latitude[1]) \o <<",">>
  \o FormatCoord(loc.longitude[1]) \o <<")", "for", "mapping", "applications",
       "\n">>
  \o <<"This", "data", "can", "be", "used", "to", "create", "interactive",
       "maps", "with", "weather", "and", "flight", "overlays.">>

\* The composite returns: ends the call.
CompReturn(m, out) ==
  [m EXCEPT !.pc = "done", !.frame = "get_location_data", !.ret = out]

\* The composite giving up at the first sub-handler that reports an error.
CompAppendStops(m, step, out, args) ==
  IF out.raised THEN CompReturn(m, CompExcept(args["location"], out.exc))
  ELSE IF out.kind # "" THEN CompReturn(m, out)
  ELSE [m EXCEPT !.result = @ \o out.blocks[1] \o <<"\n", "\n">>,
                 !.steps = Append(@, [step |-> step, text |-> out.blocks[1]])]

\* result += response[0].text + "\n\n"; an exception out of the awaited
\* sub-handler lands in the composite's own except clause.
CompAppend(m, step, out, args) ==
  IF out.raised THEN CompReturn(m, CompExcept(args["location"], out.exc))
  ELSE [m EXCEPT !.result = @ \o out.blocks[1] \o <<"\n", "\n">>,
                 !.steps = Append(@, [step |-> step, text |-> out.blocks[1]])]

CompFinish(m) ==
  IF m.pc = "done" THEN m
  ELSE CompReturn(m, Returned(m.result \o CompFooter(m.cloc)))

\* The composite passing 50 for a missing flight_radius.
FlightArgsRadius50(args) ==
  [location |-> args["location"],
   radius |-> ArgGet(args, "flight_radius", IntV(50)),
   limit |-> IntV(10)]

FlightArgs(args) ==
  [location |-> args["location"],
   radius |-> ArgGet(args, "flight_radius", IntV(100)),
   limit |-> IntV(10)]

\* The composite running the flights step whatever include_flights says.
CompRunFlightsAlways(m, args, env) ==
  LET r == FlightStart(m, FlightArgs(args), env)
  IN IF m.pc = "done" THEN m
     ELSE IF r.done THEN CompFinish(CompAppend(r.m, "flights", r.out, args))
     ELSE r.m

CompRunFlights(m, args, env) ==
  LET r == FlightStart(m, FlightArgs(args), env)
  IN IF m.pc = "done" THEN m
     ELSE IF ~Truthy(ArgGet(args, "include_flights", BoolV(TRUE))) THEN CompFinish(m)
     ELSE IF r.done THEN CompFinish(CompAppend(r.m, "flights", r.out, args))
     ELSE r.m

AirportArgs(args) == [location |-> args["location"]]

CompRunAirports(m, args, env) ==
  LET r == AirportStart(m, AirportArgs(args), env)
  IN IF m.pc = "done" THEN m
     ELSE IF r.done
          THEN CompRunFlights(CompAppend(r.m, "airports", r.out, args), args, env)
          ELSE r.m

WeatherArgs(args) ==
  [location |-> args["location"], days |-> IntV(3), include_hourly |-> BoolV(FALSE)]

CompRunWeather(m, args, env) ==
  LET r == WeatherStart(m, WeatherArgs(args))
  IN IF ~Truthy(ArgGet(args, "include_weather", BoolV(TRUE)))
     THEN CompRunAirports(m, args, env)
     ELSE IF r.done
          THEN CompRunAirports(CompAppend(r.m, "weather", r.out, args), args, env)
          ELSE r.m

\* The composite geocoding before it looks at its location argument.
CompStartEager(m, args) ==
  Request([m EXCEPT !.frame = "get_location_data", !.hargs = args],
          GeocodeRequest(ArgGet(args, "location", StrV(<<>>))))

CompStart(m, args) ==
  LET location == ArgGet(args, "location", StrV(<<>>))
      m1 == [m EXCEPT !.frame = "get_location_data", !.hargs = args]
  IN IF ~Truthy(location) THEN CompReturn(m1, NoLocationProvided)
     ELSE Request(m1, GeocodeRequest(location))

\* The composite reading the credential before it looks at the geocoder's
\* answer.
CompOnGeocodeReadsCredential(m, resp, args, env) ==
  LET found == get_location_coordinates(resp)
      loc == found[1]
      m1 == [m EXCEPT !.api_key = env, !.log = Append(@, GetenvEvent(env))]
  IN IF ~IsSet(found) THEN CompReturn(m1, LocationNotFound(args["location"]))
     ELSE IF ~HasCoordinates(loc)
          THEN CompReturn(m, CompExcept(args["location"], "KeyError"))
          ELSE CompRunWeather([m EXCEPT !.cloc = loc, !.result = CompHeader(loc)],
                              args, env)

CompOnGeocode(m, resp, args, env) ==
  LET found == get_location_coordinates(resp)
      loc == found[1]
  IN IF ~IsSet(found) THEN CompReturn(m, LocationNotFound(args["location"]))
     ELSE IF ~HasCoordinates(loc)
          THEN CompReturn(m, CompExcept(args["location"], "KeyError"))
          ELSE CompRunWeather([m EXCEPT !.cloc = loc, !.result = CompHeader(loc)],
                              args, env)

\* A sub-handler of the composite took a step.
CompOnStep(r, args, env) ==
  IF ~r.done THEN r.m
  ELSE CASE r.m.frame = "get_weather" ->
              CompRunAirports(CompAppend(r.m, "weather", r.out, args), args, env)
         [] r.m.frame = "get_airport_info" ->
              CompRunFlights(CompAppend(r.m, "airports", r.out, args), args, env)
         [] OTHER -> CompFinish(CompAppend(r.m, "flights", r.out, args))

\* A handler called by call_tool itself took a step.
TopOnStep(r) ==
  IF r.done THEN [r.m EXCEPT !.pc = "done", !.ret = r.out] ELSE r.m

(***************************************************************************)
(* call_tool: the dispatcher.                                              *)
(***************************************************************************)
ToolNames == {"calculator", "text_analyzer", "list_files", "get_weather",
              "get_flights_by_location", "get_airport_info", "get_location_data"}

\* The inputSchema list_tools declares for each tool: per property its type,
\* whether it is required, and the minimum and maximum of a bounded integer.
Param(type, required) ==
  [type |-> type, required |-> required, bounded |-> FALSE, min |-> 0, max |-> 0]

Bounded(min, max) ==
  [type |-> "integer", required |-> FALSE, bounded |-> TRUE, min |-> min,
   max |-> max]

inputSchema(name) ==
  CASE name = "calculator" -> [expression |-> Param("string", TRUE)]
    [] name = "text_analyzer" -> [text |-> Param("string", TRUE)]
    [] name = "list_files" -> [path |-> Param("string", FALSE)]
    [] name = "get_weather" ->
         [location |-> Param("string", TRUE), days |-> Bounded(1, 7),
          include_hourly |-> Param("boolean", FALSE)]
    [] name = "get_flights_by_location" ->
         [location |-> Param("string", TRUE), radius |-> Bounded(10, 500),
          limit |-> Bounded(1, 100)]
    [] name = "get_airport_info" -> [location |-> Param("string", TRUE)]
    [] name = "get_location_data" ->
         [location |-> Param("string", TRUE),
          include_flights |-> Param("boolean", FALSE),
          include_weather |-> Param("boolean", FALSE),
          flight_radius |-> Bounded(10, 500)]
    [] OTHER -> [k \in {} |-> Param("string", FALSE)]

UnknownTool(name) == Raised("ValueError")

\* The machine after call_tool(name, arguments) ran to its first await or
\* to its end; listing is what os.listdir returns should it be called.
call_tool(name, arguments, env, listing) ==
  LET m == IdleMachine
      calc == handle_calculator(arguments)
  IN CASE name = "calculator" ->
            [m EXCEPT !.pc = "done", !.frame = name, !.ret = calc.out,
                      !.log = IF calc.evaluated THEN <<EvalEvent>> ELSE <<>>]
       [] name = "text_analyzer" ->
            [m EXCEPT !.pc = "done", !.frame = name,
                      !.ret = handle_text_analyzer(arguments)]
       [] name = "list_files" ->
            [m EXCEPT !.pc = "done", !.frame = name,
                      !.ret = handle_list_files(arguments, listing)]
       [] name = "get_weather" -> TopOnStep(WeatherStart(m, arguments))
       [] name = "get_flights_by_location" ->
            TopOnStep(FlightStart(m, arguments, env))
       [] name = "get_airport_info" -> TopOnStep(AirportStart(m, arguments, env))
       [] name = "get_location_data" -> CompStart(m, arguments)
       [] OTHER -> [m EXCEPT !.pc = "done", !.ret = UnknownTool(name)]

(***************************************************************************)
(* The inputs of the model: argument maps, and provider responses.         *)
(***************************************************************************)
\* The characters expressions are drawn from: "x" is outside the whitelist.
ExprChars == {"0", "2", "3", "+", "-", "*", "/", "%", "(", ")", ".", " ", "x"}

Expressions == SeqsUpTo(ExprChars, MaxExprLen)

TextChars == {"a", " ", ".", "!", "?", "\n"}

\* The text of the specification's example.
HiBye == <<"H", "i", ".", " ", "B", "y", "e", "!">>

Texts == SeqsUpTo(TextChars, MaxTextLen) \cup {HiBye}

\* The maps that give each key of opts no value or one of its values.
ArgMaps(opts) ==
  UNION { [keys -> UNION { opts[k] : k \in keys }] : keys \in SUBSET DOMAIN opts }

ArgMapsOf(opts) ==
  { a \in ArgMaps(opts) : \A k \in DOMAIN a : a[k] \in opts[k] }

Locations == {StrV(<<>>), StrV(<<"Oslo">>), IntV(5)}

\* The "default" entries of the input schemas.
SchemaDefaults(name) ==
  CASE name = "list_files" -> [path |-> StrV(<<".">>)]
    [] name = "get_weather" ->
         [days |-> IntV(3), include_hourly |-> BoolV(FALSE)]
    [] name = "get_flights_by_location" ->
         [radius |-> IntV(100), limit |-> IntV(20)]
    [] name = "get_location_data" ->
         [include_flights |-> BoolV(TRUE), include_weather |-> BoolV(TRUE),
          flight_radius |-> IntV(100)]
    [] OTHER -> [k \in {} |-> StrV(<<>>)]

ToolArguments(name) ==
  CASE name = "calculator" ->
         ArgMapsOf([expression |-> { StrV(e) : e \in Expressions }
                                     \cup {IntV(5), IntV(0)}])
    [] name = "text_analyzer" ->
         ArgMapsOf([text |-> { StrV(t) : t \in Texts } \cup {IntV(7)}])
    [] name = "list_files" ->
         ArgMapsOf([path |-> { StrV(<<q>>) : q \in Paths }])
    [] name = "get_weather" ->
         ArgMapsOf([location |-> Locations,
                    days |-> {IntV(1), IntV(0), IntV(8), StrV(<<"3">>)},
                    include_hourly |-> {BoolV(TRUE)}])
    [] name = "get_flights_by_location" ->
         ArgMapsOf([location |-> Locations,
                    radius |-> {IntV(50), IntV(5), IntV(501)},
                    limit |-> {IntV(5), IntV(0), IntV(101)}])
    [] name = "get_airport_info" -> ArgMapsOf([location |-> Locations])
    [] name = "get_location_data" ->
         ArgMapsOf([location |-> {StrV(<<"Oslo">>)},
                    include_flights |-> {BoolV(TRUE), BoolV(FALSE)},
                    include_weather |-> {BoolV(TRUE), BoolV(FALSE)},
                    flight_radius |-> {IntV(50), IntV(501)}])
    [] OTHER -> {NoArgs}

(***************************************************************************)
(* Arithmetic expressions over integers, built by the grammar of the four  *)
(* operators, modulo and parentheses, each with the value arithmetic       *)
(* gives it: s the characters, n/d the value, ok whether it has one (no    *)
(* zero divisor), fl whether a division occurs in it.                      *)
(*   sum:  term | sum ('+'|'-') term                                       *)
(*   term: atom | term ('*'|'/'|'%') atom                                  *)
(*   atom: NUMBER | '(' sum ')'                                            *)
(***************************************************************************)
Arith(str, n, d, ok, fl) == [s |-> str, n |-> n, d |-> d, ok |-> ok, fl |-> fl]

NoArith == Arith(<<>>, 0, 1, FALSE, FALSE)

Numbers == {Arith(<<"2">>, 2, 1, TRUE, FALSE), Arith(<<"3">>, 3, 1, TRUE, FALSE)}

\* a op b, with the value of exact arithmetic; a % b has the sign of b.
ArithOp(a, op, b) ==
  LET str == a.s \o <<op>> \o b.s
      fl == a.fl \/ b.fl \/ op = "/"
      q == CASE op = "+" -> Norm(a.n * b.d + b.n * a.d, a.d * b.d)
             [] op = "-" -> Norm(a.n * b.d - b.n * a.d, a.d * b.d)
             [] op = "*" -> Norm(a.n * b.n, a.d * b.d)
             [] op = "/" -> Norm(a.n * b.d, a.d * b.n)
             [] OTHER -> Norm(a.n * b.d
                                - FloorDiv(a.n * b.d, a.d * b.n) * b.n * a.d,
                              a.d * b.d)
  IN IF ~a.ok \/ ~b.ok \/ (op \in {"/", "%"} /\ b.n = 0)
     THEN Arith(str, 0, 1, FALSE, fl)
     ELSE Arith(str, q.n, q.d, TRUE, fl)

ArithParen(a) == [a EXCEPT !.s = <<"(">> \o a.s \o <<")">>]

\* The phrases of a rule with exactly k operators; "termop" and "sumop" are
\* the terms and sums with an operator at the top.
RECURSIVE ArithGen(_, _)
ArithGen(rule, k) ==
  CASE rule = "atom" ->
         IF k = 0 THEN Numbers
         ELSE { ArithParen(e) : e \in ArithGen("termop", k) \cup ArithGen("sumop", k) }
    [] rule = "termop" ->
         UNION { { ArithOp(t, op, a) : t \in ArithGen("term", i),
                                       a \in ArithGen("atom", k - 1 - i),
                                       op \in {"*", "/", "%"} } : i \in 0..(k - 1) }
    [] rule = "term" -> ArithGen("atom", k) \cup ArithGen("termop", k)
    [] rule = "sumop" ->
         UNION { { ArithOp(u, op, t) : u \in ArithGen("sum", i),
                                       t \in ArithGen("term", k - 1 - i),
                                       op \in {"+", "-"} } : i \in 0..(k - 1) }
    [] OTHER -> ArithGen("term", k) \cup ArithGen("sumop", k)

\* The expression of the specification's example, with its value.
SpecExample ==
  Arith(<<"2", " ", "+", " ", "3", " ", "*", " ", "4">>, 14, 1, TRUE, FALSE)

ArithExpressions ==
  Numbers \cup {SpecExample}
  \cup UNION { ArithGen("termop", k) \cup ArithGen("sumop", k) : k \in 1..MaxOperators }

\* The values of the environment variable: "" stands for unset.
ApiKeys == {"", "k1"}

Resp(kind, code, body) == [kind |-> kind, code |-> code, body |-> body]

Oslo == [name |-> Some(<<"Oslo">>), country |-> Some(<<"Norway">>),
         latitude |-> Some(599139), longitude |-> Some(107522)]

GeoResp(kind, code, results) == [kind |-> kind, code |-> code, results |-> results]

\* What a data client saw of a response: the provider, kind and status.
Answer(svc, resp) == [svc |-> svc, kind |-> resp.kind, code |-> resp.code]

NoDataResp == [svc |-> "", kind |-> "none", code |-> 0]

\* No response yet: the geocoder was not called, or it still awaits.
NoGeoResp == GeoResp("none", 0, <<>>)

GeoResponses ==
  {GeoResp("fail", 0, <<>>), GeoResp("status", 500, <<>>),
   GeoResp("status", 500, <<Oslo>>),
   GeoResp("ok", 200, <<>>), GeoResp("ok", 200, <<Oslo>>),
   GeoResp("ok", 200, <<[Oslo EXCEPT !.country = None]>>),
   GeoResp("ok", 200, <<[Oslo EXCEPT !.latitude = None]>>)}

NoCurrent == [temperature_2m |-> None, relative_humidity_2m |-> None,
              weather_code |-> None, wind_speed_10m |-> None,
              wind_direction_10m |-> None]

NoDaily == [time |-> None, temperature_2m_max |-> None,
            temperature_2m_min |-> None, weather_code |-> None,
            precipitation_sum |-> None, wind_speed_10m_max |-> None]

TwoDays ==
  [time |-> Some(<< <<"2024-05-01">>, <<"2024-05-02", "T", "00:00">> >>),
   temperature_2m_max |-> Some(<<Some(12), None>>),
   temperature_2m_min |-> Some(<<Some(-3), Some(4)>>),
   weather_code |-> Some(<<Some(61), Some(4)>>),
   precipitation_sum |-> Some(<<Some(5), Some(0)>>),
   wind_speed_10m_max |-> Some(<<Some(20), None>>)]

WeatherBodies ==
  {[current |-> [NoCurrent EXCEPT !.temperature_2m = Some(7),
                                  !.weather_code = Some(3),
                                  !.wind_speed_10m = Some(11)],
    daily |-> TwoDays],
   [current |-> NoCurrent, daily |-> NoDaily],
   [current |-> NoCurrent, daily |-> [TwoDays EXCEPT !.temperature_2m_max = None]]}

WeatherResponses ==
  {Resp("fail", 0, [current |-> NoCurrent, daily |-> NoDaily]),
   Resp("status", 404, [current |-> NoCurrent, daily |-> NoDaily]),
   Resp("status", 500, [current |-> NoCurrent, daily |-> NoDaily])}
  \cup { Resp("ok", 200, b) : b \in WeatherBodies }

FlightInfo(number, status) == [number |-> number, status |-> status]

Endpoint(airport, scheduled) == [airport |-> airport, scheduled |-> scheduled]

Aircraft(registration, iata) == [registration |-> registration, iata |-> iata]

Airline(name) == [name |-> name]

FullFlight ==
  [flight |-> Obj(FlightInfo(Some(<<"SK4035">>), Some(<<"active">>))),
   departure |-> Obj(Endpoint(Some(<<"OSL">>), Some(<<"08:00">>))),
   arrival |-> Obj(Endpoint(Some(<<"BGO">>), None)),
   aircraft |-> Obj(Aircraft(Some(<<"LN-RGA">>), None)),
   airline |-> Obj(Airline(Some(<<"SAS">>)))]

BareFlight ==
  [flight |-> Absent(FlightInfo(None, None)),
   departure |-> Absent(Endpoint(None, None)),
   arrival |-> Obj(Endpoint(None, None)),
   aircraft |-> Absent(Aircraft(None, None)),
   airline |-> Absent(Airline(None))]

\* A payload of MaxFlights records, told apart by their flight numbers.
ManyFlights ==
  [k \in 1..MaxFlights |->
     [FullFlight EXCEPT !.flight = Obj(FlightInfo(Some(<<"SK">> \o NatToStr(k)),
                                                  Some(<<"landed">>)))]]

FlightBodies ==
  {[data |-> None], [data |-> Some(<<FullFlight, BareFlight>>)],
   [data |-> Some(ManyFlights)],
   [data |-> Some(<<[FullFlight EXCEPT !.aircraft = Null(Aircraft(None, None))]>>)]}

FlightResponses ==
  {Resp("fail", 0, [data |-> None]), Resp("status", 401, [data |-> None])}
  \cup { Resp("ok", 200, b) : b \in FlightBodies }

Gardermoen ==
  [airport_name |-> Some(<<"Oslo", "Gardermoen">>), iata_code |-> Some(<<"OSL">>),
   icao_code |-> Some(<<"ENGM">>), city_iata_code |-> Some(<<"OSL">>),
   country_name |-> Some(<<"Norway">>), latitude |-> Some(<<"60.19">>),
   longitude |-> Some(<<"11.10">>), timezone |-> Some(<<"Europe/Oslo">>)]

AirportBodies ==
  {[data |-> Some(<<>>)],
   [data |-> Some(<<Gardermoen,
                    [Gardermoen EXCEPT !.iata_code = None, !.timezone = None,
                                       !.longitude = None]>>)]}

AirportResponses ==
  {Resp("fail", 0, [data |-> None]), Resp("status", 429, [data |-> None])}
  \cup { Resp("ok", 200, b) : b \in AirportBodies }

(***************************************************************************)
(* The state machine: one call of call_tool at a time.  The server never   *)
(* writes the environment variable; SpecEnv lets its host change it.       *)
(***************************************************************************)
VARIABLES apiKey, tool, arguments, pc, frame, hargs, api_key, location_data,
          cloc, result, ret, log, inflight, steps, arith, georesp, dataresp,
          trace, described, calls, tracker, reqs

vars == <<apiKey, tool, arguments, pc, frame, hargs, api_key, location_data,
          cloc, result, ret, log, inflight, steps, arith, georesp,
          dataresp, trace, described, calls, tracker, reqs>>

\* The clients that call the server at the same time.
Callers == {1, 2}

\* A call in progress: its handler's locals and the responses it received.
IdleCall == [tool |-> "", arguments |-> NoArgs, m |-> IdleMachine, trace |-> <<>>]

\* The demo app.  A resolved location is known by its name and, for the
\* record, by the /search request that resolved it; mock flights and mock
\* airports by the location they were generated around and the request
\* that generated them.
NoPlace == [name |-> "", by |-> 0]

NoMock == [center |-> "", by |-> 0]

\* FlightTracker.__init__
FlightTracker ==
  [current_location |-> NoPlace, current_flights |-> NoMock,
   current_airports |-> NoMock]

\* The locals of a /search request.
NoSearch ==
  [pc |-> "idle", query |-> "", location |-> NoPlace, flights |-> NoMock,
   airports |-> NoMock, status |-> 0]

NoDescription == [code |-> 0, text |-> <<>>]

\* The variables of the one call the server runs at a time.
single == <<tool, arguments, pc, frame, hargs, api_key, location_data, cloc,
            result, ret, log, inflight, steps, arith, georesp, dataresp, trace>>

\* The variables no tool call touches.
aside == <<described, calls, tracker, reqs>>

\* The call in progress, as a machine record.
Machine ==
  [pc |-> pc, frame |-> frame, hargs |-> hargs, api_key |-> api_key,
   location_data |-> location_data, cloc |-> cloc, result |-> result,
   ret |-> ret, log |-> log, inflight |-> inflight, steps |-> steps]

Becomes(m) ==
  /\ pc' = m.pc
  /\ frame' = m.frame
  /\ hargs' = m.hargs
  /\ api_key' = m.api_key
  /\ location_data' = m.location_data
  /\ cloc' = m.cloc
  /\ result' = m.result
  /\ ret' = m.ret
  /\ log' = m.log
  /\ inflight' = m.inflight
  /\ steps' = m.steps

Init ==
  /\ apiKey \in ApiKeys
  /\ tool = ""
  /\ arguments = NoArgs
  /\ pc = "idle"
  /\ frame = ""
  /\ hargs = NoArgs
  /\ api_key = ""
  /\ location_data = NoLocation
  /\ cloc = NoLocation
  /\ result = <<>>
  /\ ret = NoRet
  /\ log = <<>>
  /\ inflight = {}
  /\ steps = <<>>
  /\ arith = NoArith
  /\ georesp = NoGeoResp
  /\ dataresp = NoDataResp
  /\ trace = <<>>
  /\ described = NoDescription
  /\ calls = [i \in Callers |-> IdleCall]
  /\ tracker = FlightTracker
  /\ reqs = [i \in Callers |-> NoSearch]

\* The directory entries os.listdir would return for the call's path.
ListingsFor(args) ==
  LET path == ArgGet(args, "path", StrV(<<".">>)).s
  IN Listings(FileSystem(IF Len(path) = 1 THEN path[1] ELSE "").entries)

\* A client calls a tool.
CallTool ==
  /\ pc = "idle"
  /\ \E name \in ToolNames \cup {"bogus"} :
       \E args \in ToolArguments(name) :
         \E listing \in ListingsFor(args) :
           /\ tool' = name
           /\ arguments' = args
           /\ Becomes(call_tool(name, args, apiKey, listing))
  /\ arith' = NoArith
  /\ georesp' = NoGeoResp
  /\ dataresp' = NoDataResp
  /\ trace' = <<>>
  /\ UNCHANGED <<apiKey, aside>>

\* A client calls the calculator with an arithmetic expression; arith keeps
\* the expression and the value arithmetic gives it.
CalculatorCall ==
  /\ pc = "idle"
  /\ \E e \in ArithExpressions :
       LET args == [expression |-> StrV(e.s)]
       IN /\ tool' = "calculator"
          /\ arguments' = args
          /\ Becomes(call_tool("calculator", args, apiKey, <<>>))
          /\ arith' = e
  /\ georesp' = NoGeoResp
  /\ dataresp' = NoDataResp
  /\ trace' = <<>>
  /\ UNCHANGED <<apiKey, aside>>

\* The response to the request in flight arrives; the coroutine resumes.
\* georesp keeps the last response the geocoder received, dataresp the
\* provider, kind and status of the last response a data client received,
\* trace every response the call received, in order.
\* A response that leaves its request pending.
AnsweredStillPending(m, svc) == m

\* The await of the request to svc returns.
Answered(m, svc) == [m EXCEPT !.inflight = @ \ {svc}]

Resume(name, args, env, r) ==
  IF name = "get_location_data" THEN CompOnStep(r, args, env)
  ELSE TopOnStep(r)

\* The call name(args) in state m receives the response it awaits.
OnResponse(m, name, args, env, resp) ==
  LET a == Answered(m, m.pc)
  IN CASE m.pc = "geocode" /\ m.frame = "get_location_data" ->
            CompOnGeocode(a, resp, args, env)
       [] m.pc = "geocode" /\ m.frame = "get_weather" ->
            Resume(name, args, env, WeatherOnGeocode(a, resp))
       [] m.pc = "geocode" -> Resume(name, args, env, FlightOnGeocode(a, resp))
       [] m.pc = "weather" -> Resume(name, args, env, WeatherOnResponse(a, resp))
       [] m.pc = "airports" -> Resume(name, args, env, AirportOnResponse(a, resp))
       [] OTHER -> Resume(name, args, env, FlightOnResponse(a, resp))

GeocodeResponse ==
  /\ pc = "geocode"
  /\ \E resp \in GeoResponses :
       /\ georesp' = resp
       /\ trace' = Append(trace, resp)
       /\ Becomes(OnResponse(Machine, tool, arguments, apiKey, resp))
  /\ UNCHANGED <<apiKey, tool, arguments, arith, dataresp, aside>>

WeatherResponse ==
  /\ pc = "weather"
  /\ \E resp \in WeatherResponses :
       /\ dataresp' = Answer("weather", resp)
       /\ trace' = Append(trace, resp)
       /\ Becomes(OnResponse(Machine, tool, arguments, apiKey, resp))
  /\ UNCHANGED <<apiKey, tool, arguments, arith, georesp, aside>>

AirportResponse ==
  /\ pc = "airports"
  /\ \E resp \in AirportResponses :
       /\ dataresp' = Answer("airports", resp)
       /\ trace' = Append(trace, resp)
       /\ Becomes(OnResponse(Machine, tool, arguments, apiKey, resp))
  /\ UNCHANGED <<apiKey, tool, arguments, arith, georesp, aside>>

FlightResponse ==
  /\ pc = "flights"
  /\ \E resp \in FlightResponses :
       /\ dataresp' = Answer("flights", resp)
       /\ trace' = Append(trace, resp)
       /\ Becomes(OnResponse(Machine, tool, arguments, apiKey, resp))
  /\ UNCHANGED <<apiKey, tool, arguments, arith, georesp, aside>>

\* The caller takes the result; the call's locals are gone.
Return ==
  /\ pc = "done"
  /\ tool' = ""
  /\ arguments' = NoArgs
  /\ Becomes(IdleMachine)
  /\ arith' = NoArith
  /\ georesp' = NoGeoResp
  /\ dataresp' = NoDataResp
  /\ trace' = <<>>
  /\ UNCHANGED <<apiKey, aside>>

Next ==
  \/ CallTool
  \/ CalculatorCall
  \/ GeocodeResponse
  \/ WeatherResponse
  \/ AirportResponse
  \/ FlightResponse
  \/ Return

Spec == Init /\ [][Next]_vars

(***************************************************************************)
(* The host process sets or unsets AVIATIONSTACK_API_KEY between the       *)
(* steps of the server.                                                    *)
(***************************************************************************)
SetEnv ==
  /\ \E key \in ApiKeys \ {apiKey} : apiKey' = key
  /\ UNCHANGED <<single, aside>>

NextEnv == Next \/ SetEnv

SpecEnv == Init /\ [][NextEnv]_vars

(***************************************************************************)
(* Concurrent calls: the event loop runs each call's handler up to its     *)
(* next await and resumes it when the awaited response arrives, in any     *)
(* order.  A handler's variables are its coroutine's locals.               *)
(***************************************************************************)
ConcurrentCalls ==
  { <<name, args>> \in
      {"get_weather", "get_flights_by_location", "get_airport_info"}
        \X ArgMapsOf([location |-> {StrV(<<"Oslo">>), IntV(5)}]) :
      "location" \in DOMAIN args }
  \cup {<<"get_location_data",
          [location |-> StrV(<<"Oslo">>), include_weather |-> BoolV(FALSE),
           include_flights |-> BoolV(FALSE)]>>}

ResponsesTo(svc) ==
  CASE svc = "geocode" -> GeoResponses
    [] svc = "weather" -> WeatherResponses
    [] svc = "airports" -> AirportResponses
    [] OTHER -> FlightResponses

\* The handler of call i reading the arguments of the call beside it.
ConcurrentStepShared(cs, i, resp) ==
  LET c == cs[i]
      o == cs[3 - i]
      m == [c.m EXCEPT !.hargs = IF o.m.pc = "idle" THEN @ ELSE o.m.hargs]
  IN OnResponse(m, c.tool, c.arguments, apiKey, resp)

\* Call i resumes with the response it awaits.
ConcurrentStep(cs, i, resp) ==
  OnResponse(cs[i].m, cs[i].tool, cs[i].arguments, apiKey, resp)

ConcurrentStart(i) ==
  /\ calls[i].m.pc = "idle"
  /\ \E c \in ConcurrentCalls :
       calls' = [calls EXCEPT ![i] =
                   [tool |-> c[1], arguments |-> c[2],
                    m |-> call_tool(c[1], c[2], apiKey, <<>>), trace |-> <<>>]]
  /\ UNCHANGED <<apiKey, single, described, tracker, reqs>>

ConcurrentResponse(i) ==
  /\ calls[i].m.pc \notin {"idle", "done"}
  /\ \E resp \in ResponsesTo(calls[i].m.pc) :
       calls' = [calls EXCEPT ![i].m = ConcurrentStep(calls, i, resp),
                              ![i].trace = Append(@, resp)]
  /\ UNCHANGED <<apiKey, single, described, tracker, reqs>>

ConcurrentReturn(i) ==
  /\ calls[i].m.pc = "done"
  /\ calls' = [calls EXCEPT ![i] = IdleCall]
  /\ UNCHANGED <<apiKey, single, described, tracker, reqs>>

NextConcurrent ==
  \E i \in Callers :
    \/ ConcurrentStart(i)
    \/ ConcurrentResponse(i)
    \/ ConcurrentReturn(i)

SpecConcurrent == Init /\ [][NextConcurrent]_vars

(***************************************************************************)
(* The demo app's /search route.  Flask's development server handles each  *)
(* request on a thread of its own; all threads use the one module-level    *)
(* tracker.  A thread may be preempted between any two statements.         *)
(***************************************************************************)
Queries == {"", "Oslo", "Bergen"}

\* generate_mock_flights and generate_mock_airports: nothing without a
\* center, else data placed around it.
generate_mock(center, i) ==
  IF center = NoPlace THEN NoMock ELSE [center |-> center.name, by |-> i]

SearchAnswer(i, status) == [reqs EXCEPT ![i].pc = "done", ![i].status = status]

\* search(): the request arrives; an empty query is answered 400.
SearchStart(i) ==
  /\ reqs[i].pc = "idle"
  /\ \E query \in Queries :
       reqs' = [reqs EXCEPT ![i] =
                  IF query = "" THEN [NoSearch EXCEPT !.pc = "done", !.status = 400]
                  ELSE [NoSearch EXCEPT !.pc = "search_location", !.query = query]]
  /\ UNCHANGED <<apiKey, single, described, calls, tracker>>

\* search_location: the geocoder's answer arrives; a match is stored in the
\* tracker, no match is answered 404.
SearchLocationStore(i) ==
  /\ reqs[i].pc = "search_location"
  /\ \E found \in BOOLEAN :
       IF found
       THEN /\ tracker' = [tracker EXCEPT !.current_location =
                                            [name |-> reqs[i].query, by |-> i]]
            /\ reqs' = [reqs EXCEPT ![i].pc = "return_location"]
       ELSE /\ reqs' = SearchAnswer(i, 404)
            /\ UNCHANGED tracker
  /\ UNCHANGED <<apiKey, single, described, calls>>

\* search_location: return self.current_location
SearchLocationReturn(i) ==
  /\ reqs[i].pc = "return_location"
  /\ reqs' = [reqs EXCEPT ![i].pc = "get_flights_data",
                          ![i].location = tracker.current_location]
  /\ UNCHANGED <<apiKey, single, described, calls, tracker>>

\* get_flights_data: the flights handler has answered; mock flights are
\* generated around self.current_location, stored and returned.
SearchFlights(i) ==
  /\ reqs[i].pc = "get_flights_data"
  /\ LET flights == generate_mock(tracker.current_location, i)
     IN /\ tracker' = [tracker EXCEPT !.current_flights = flights]
        /\ reqs' = [reqs EXCEPT ![i].pc = "get_airport_data",
                                ![i].flights = flights]
  /\ UNCHANGED <<apiKey, single, described, calls>>

\* get_airport_data: the same for airports; then search() answers 200.
SearchAirports(i) ==
  /\ reqs[i].pc = "get_airport_data"
  /\ LET airports == generate_mock(tracker.current_location, i)
     IN /\ tracker' = [tracker EXCEPT !.current_airports = airports]
        /\ reqs' = [SearchAnswer(i, 200) EXCEPT ![i].airports = airports]
  /\ UNCHANGED <<apiKey, single, described, calls>>

\* The response is sent; the request's locals are gone.
SearchEnd(i) ==
  /\ reqs[i].pc = "done"
  /\ reqs' = [reqs EXCEPT ![i] = NoSearch]
  /\ UNCHANGED <<apiKey, single, described, calls, tracker>>

NextSearch ==
  \E i \in Callers :
    \/ SearchStart(i)
    \/ SearchLocationStore(i)
    \/ SearchLocationReturn(i)
    \/ SearchFlights(i)
    \/ SearchAirports(i)
    \/ SearchEnd(i)

SpecSearch == Init /\ [][NextSearch]_vars

(***************************************************************************)
(* get_weather_description applied to every code of a range; described     *)
(* keeps the code and the phrase returned for it.                          *)
(***************************************************************************)
CodeRange == (-1)..MaxCode

GetWeatherDescription ==
  /\ pc = "idle"
  /\ \E c \in CodeRange :
       described' = [code |-> c, text |-> get_weather_description(c)]
  /\ UNCHANGED <<apiKey, single, calls, tracker, reqs>>

NextCodes == GetWeatherDescription

SpecCodes == Init /\ [][NextCodes]_vars

(***************************************************************************)
(* The vocabulary of the properties.                                        *)
(***************************************************************************)
Done == pc = "done"

\* The call returned exactly one text block.
OneBlock == ~ret.raised /\ Len(ret.blocks) = 1

\* The first word of the block returned.
FirstWord == IF ret.blocks[1] = <<>> THEN "" ELSE ret.blocks[1][1]

\* The requests to the providers that the call issued so far.
Requests == { k \in DOMAIN log : log[k].ev = "request" }

Evaluations == { k \in DOMAIN log : log[k].ev = "eval" }

TypeName(type) ==
  CASE type = "string" -> "str" [] type = "integer" -> "int" [] OTHER -> "bool"

\* arguments given to tool name conform to its inputSchema.
Conforms(name, args) ==
  LET schema == inputSchema(name)
  IN /\ DOMAIN args \subseteq DOMAIN schema
     /\ \A k \in DOMAIN schema :
          /\ schema[k].required => k \in DOMAIN args
          /\ k \in DOMAIN args =>
               /\ args[k].t = TypeName(schema[k].type)
               /\ schema[k].bounded =>
                    args[k].i >= schema[k].min /\ args[k].i <= schema[k].max

\* Some integer argument lies outside its schema's minimum..maximum.
OutOfRange(name, args) ==
  LET schema == inputSchema(name)
  IN \E k \in DOMAIN args \cap DOMAIN schema :
       /\ schema[k].bounded
       /\ args[k].t = "int"
       /\ args[k].i < schema[k].min \/ args[k].i > schema[k].max

\* Some argument has another type than its schema declares.
WrongType(name, args) ==
  LET schema == inputSchema(name)
  IN \E k \in DOMAIN args \cap DOMAIN schema :
       args[k].t # TypeName(schema[k].type)

CompositeTool == "get_location_data"

\* The steps the composite owes for its arguments, in order.
ExpectedSteps(args) ==
  (IF Truthy(ArgGet(args, "include_weather", BoolV(TRUE)))
   THEN <<"weather">> ELSE <<>>)
  \o <<"airports">>
  \o (IF Truthy(ArgGet(args, "include_flights", BoolV(TRUE)))
      THEN <<"flights">> ELSE <<>>)

\* The texts of steps[k..], each followed by the blank line.
RECURSIVE StepTexts(_, _)
StepTexts(ss, k) ==
  IF k > Len(ss) THEN <<>>
  ELSE ss[k].text \o <<"\n", "\n">> \o StepTexts(ss, k + 1)

IsErrorText(text) == text # <<>> /\ text[1] \in {"Error:", "Error"}

(***************************************************************************)
(* C1: for every tool of the catalog and every argument map that conforms  *)
(* to its schema, under every provider response and credential state,      *)
(* call_tool returns a list of at least one text block and does not raise. *)
(***************************************************************************)
C1_CatalogCallReturnsBlocks ==
  (Done /\ tool \in ToolNames /\ Conforms(tool, arguments))
    => ~ret.raised /\ Len(ret.blocks) >= 1

\* A conforming get_weather call whose report could not be formatted.
C1_Witness ==
  /\ Done
  /\ tool = "get_weather"
  /\ Conforms(tool, arguments)
  /\ ret.kind = "IndexError"
  /\ Len(ret.blocks) = 1

(***************************************************************************)
(* C2: a call with a name that is not in the catalog returns a single text *)
(* block whose text begins with "Error:"; nothing is raised.                *)
(***************************************************************************)
C2_UnknownToolIsErrorBlock ==
  (Done /\ tool \notin ToolNames) => OneBlock /\ FirstWord = "Error:"

(***************************************************************************)
(* C3: every error outcome of a single-tool handler (missing parameter,    *)
(* invalid expression, evaluation error, location not found, missing       *)
(* credential, provider status, transport failure, path not found, not a   *)
(* directory, listing failure) is exactly one text block.                  *)
(***************************************************************************)
SingleTools == ToolNames \ {CompositeTool}

\* The error kinds reported by a message the handler writes itself.
StatedKinds == {"MissingParameter", "InvalidExpression", "NotFound",
                "MissingCredential", "ProviderError", "PathNotFound",
                "NotADirectory"}

\* The error kinds reported by an except clause: a failed evaluation, a
\* transport failure, a failed listing.
CaughtError ==
  \/ tool = "calculator" /\ Evaluations # {} /\ ret.kind # ""
  \/ ret.kind \in {"ClientError", "PermissionError"}

ListedError == ret.kind \in StatedKinds \/ CaughtError

RequiredParams(name) ==
  { k \in DOMAIN inputSchema(name) : inputSchema(name)[k].required }

C4_MissingParameterNoRequest ==
  \A k \in RequiredParams(tool) :
    (tool \in ToolNames /\ k \notin DOMAIN arguments)
      => /\ Done
         /\ OneBlock
         /\ FirstWord = "Error:"
         /\ Contains(ret.blocks[1], k)
         /\ Requests = {}
         /\ inflight = {}

\* The composite called with options but without a location.
C4_Witness ==
  /\ Done
  /\ tool = CompositeTool
  /\ "location" \notin DOMAIN arguments
  /\ "include_flights" \in DOMAIN arguments
  /\ ret.kind = "MissingParameter"

(***************************************************************************)
(* C5: a call with an integer argument outside its schema's range is       *)
(* answered with an error block before the handler runs: no request goes   *)
(* to a provider.                                                          *)
(***************************************************************************)
\* The out-of-range integers among the arguments.
OutOfRangeValues(name, args) ==
  LET schema == inputSchema(name)
  IN { args[k] : k \in { j \in DOMAIN args \cap DOMAIN schema :
                           /\ schema[j].bounded
                           /\ args[j].t = "int"
                           /\ \/ args[j].i < schema[j].min
                              \/ args[j].i > schema[j].max } }

C5_OutOfRangeRejected ==
  (tool \in ToolNames /\ OutOfRange(tool, arguments)
     /\ ~WrongType(tool, arguments)
     /\ RequiredParams(tool) \subseteq DOMAIN arguments)
    => /\ \A k \in Requests :
            log[k].num \notin OutOfRangeValues(tool, arguments)
       /\ Done => OneBlock /\ IsErrorText(ret.blocks[1])

(***************************************************************************)
(* C6: a call with an argument of another type than its schema declares is *)
(* answered with an error block before any handler logic runs; the         *)
(* dispatcher does not raise.                                              *)
(***************************************************************************)
C6_WrongTypeRejected ==
  (tool \in ToolNames /\ WrongType(tool, arguments))
    => /\ Requests = {}
       /\ Done => OneBlock /\ IsErrorText(ret.blocks[1])

(***************************************************************************)
(* C7: once the composite's geocoding gave a location with coordinates,    *)
(* its one block holds, in order: the coordinates header, the weather step *)
(* iff include_weather, the airport step always, the flights step iff      *)
(* include_flights, and the footer.                                        *)
(***************************************************************************)
C7_CompositeBlockOrder ==
  (Done /\ tool = CompositeTool /\ HasCoordinates(cloc))
    => /\ OneBlock
       /\ [k \in DOMAIN steps |-> steps[k].step] = ExpectedSteps(arguments)
       /\ ret.blocks[1] = CompHeader(cloc) \o StepTexts(steps, 1)
                            \o CompFooter(cloc)
       /\ Contains(CompHeader(cloc), "COORDINATES:")

\* Weather switched off, flights asked for and delivered.
C7_Witness ==
  /\ Done
  /\ tool = CompositeTool
  /\ HasCoordinates(cloc)
  /\ ~Truthy(ArgGet(arguments, "include_weather", BoolV(TRUE)))
  /\ Len(steps) = 2
  /\ steps[1].step = "airports"
  /\ steps[2].step = "flights"
  /\ ~IsErrorText(steps[2].text)

(***************************************************************************)
(* C8: a failing step of the composite is embedded as its own error text   *)
(* and every later step still runs; with flights asked for and no          *)
(* credential, the airport step is followed by a flights step that says    *)
(* the credential is missing.  The composite does not raise.               *)
(***************************************************************************)
C8_CompositeStepFailuresEmbedded ==
  (tool = CompositeTool /\ HasCoordinates(cloc))
    => /\ ~ret.raised
       /\ Done => OneBlock /\ FirstWord = "COMPREHENSIVE"
       /\ \A k \in DOMAIN steps :
            IsErrorText(steps[k].text) =>
              /\ Done => Len(steps) = Len(ExpectedSteps(arguments))
              /\ ~Done => inflight # {}
       /\ (Done /\ apiKey = ""
             /\ Truthy(ArgGet(arguments, "include_flights", BoolV(TRUE))))
            => /\ Len(steps) >= 2
               /\ steps[Len(steps) - 1].step = "airports"
               /\ steps[Len(steps)].step = "flights"
               /\ steps[Len(steps)].text = MissingApiKey.blocks[1]

\* The weather provider failed; the airport and flights steps still ran
\* and found no credential.
C8_Witness ==
  /\ Done
  /\ tool = CompositeTool
  /\ apiKey = ""
  /\ Len(steps) = 3
  /\ IsErrorText(steps[1].text)
  /\ steps[1].step = "weather"
  /\ steps[3].text = MissingApiKey.blocks[1]

(***************************************************************************)
(* C9: an expression with a character outside digits, + - * / ( ) . % and  *)
(* space is answered with an error block that cites invalid characters;    *)
(* eval() is never reached.                                                *)
(***************************************************************************)
Whitelist == {"0", "1", "2", "3", "4", "5", "6", "7", "8", "9",
              "+", "-", "*", "/", "(", ")", ".", "%", " "}

\* The call is calculator(expression) with expression a non-empty string.
CalculatorOfString ==
  /\ tool = "calculator"
  /\ "expression" \in DOMAIN arguments
  /\ arguments["expression"].t = "str"
  /\ arguments["expression"].s # <<>>

Whitelisted == \A k \in DOMAIN arguments["expression"].s :
                 arguments["expression"].s[k] \in Whitelist

C9_InvalidCharactersNotEvaluated ==
  (CalculatorOfString /\ ~Whitelisted)
    => /\ Done
       /\ OneBlock
       /\ FirstWord = "Error:"
       /\ Contains(ret.blocks[1], "invalid")
       /\ Contains(ret.blocks[1], "characters")
       /\ Evaluations = {}

\* An expression that mixes a digit and a letter.
C9_Witness ==
  /\ CalculatorOfString
  /\ ~Whitelisted
  /\ \E k \in DOMAIN arguments["expression"].s :
       arguments["expression"].s[k] = "2"
  /\ ret.kind = "InvalidExpression"

(***************************************************************************)
(* C10: a whitelisted expression whose evaluation fails (division or       *)
(* modulo by zero, malformed syntax) is answered with one text block that  *)
(* reports the error; nothing propagates.                                  *)
(***************************************************************************)
C10_EvaluationFailureIsErrorBlock ==
  (CalculatorOfString /\ Whitelisted)
    => LET ev == PyEval(arguments["expression"].s)
       IN ev.err # ""
            => /\ Done
               /\ OneBlock
               /\ IsErrorText(ret.blocks[1])
               /\ ret.kind = ev.err
               /\ Evaluations # {}

\* 2%0: a modulo by zero.
C10_Witness ==
  /\ CalculatorOfString
  /\ arguments["expression"].s = <<"2", "%", "0">>
  /\ ret.kind = "ZeroDivisionError"
  /\ OneBlock

(***************************************************************************)
(* C11: for every arithmetic expression over integers with + - * / % and   *)
(* parentheses that has a value, the calculator returns the one block      *)
(* "Result: <expression> = <value>", <value> being the value under the     *)
(* standard precedence: printed as an integer when no division occurs, and *)
(* a float equal to it (where the float is exact) when one does.           *)
(***************************************************************************)
C11_ArithmeticValue ==
  (tool = "calculator" /\ arith.ok)
    => /\ Done
       /\ OneBlock
       /\ IsPrefix(<<"Result:">> \o arith.s \o <<"=">>, ret.blocks[1])
       /\ ~arith.fl =>
            ret.blocks[1] = <<"Result:">> \o arith.s \o <<"=">> \o IntToStr(arith.n)
       /\ arith.fl =>
            \* the value the evaluator computed
            LET v == PyEval(arith.s).v
            IN /\ v.k = "float"
               /\ v.d # 0 => v.n * arith.d = arith.n * v.d
               /\ ret.blocks[1] = <<"Result:">> \o arith.s \o <<"=">>
                                    \o ValueToStr(v)

\* The specification's example: 2 + 3 * 4 = 14.
C11_Witness ==
  /\ Done
  /\ tool = "calculator"
  /\ arith = SpecExample
  /\ ret.blocks[1] = <<"Result:", "2", " ", "+", " ", "3", " ", "*", " ", "4",
                       "=", "1", "4">>

(***************************************************************************)
(* C12: for every non-empty text the analyzer reports as word count the    *)
(* number of whitespace-delimited tokens, as sentence count the number of  *)
(* occurrences of '.', '!' and '?', and as paragraph count the number of   *)
(* segments, separated by blank lines, that hold a non-whitespace          *)
(* character.                                                              *)
(***************************************************************************)
\* The call is text_analyzer(text) with text a non-empty string.
AnalyzerOfString ==
  /\ tool = "text_analyzer"
  /\ "text" \in DOMAIN arguments
  /\ arguments["text"].t = "str"
  /\ arguments["text"].s # <<>>

Blank == {" ", "\n", "\t"}

\* The tokens of text[i..]: inword says that text[i - 1] is part of a token.
RECURSIVE TokenCount(_, _, _)
TokenCount(text, i, inword) ==
  IF i > Len(text) THEN 0
  ELSE IF text[i] \in Blank THEN TokenCount(text, i + 1, FALSE)
  ELSE (IF inword THEN 0 ELSE 1) + TokenCount(text, i + 1, TRUE)

SentenceMarks(text) == Len(SelectSeq(text, LAMBDA c : c \in {".", "!", "?"}))

\* text[k] is the first non-blank character of a segment: nothing but blanks
\* precedes it, or a blank line lies between it and the non-blank before it.
StartsSegment(text, k) ==
  /\ text[k] \notin Blank
  /\ \/ \A j \in 1..(k - 1) : text[j] \in Blank
     \/ \E j \in 1..(k - 1) :
          /\ text[j] \notin Blank
          /\ \A h \in (j + 1)..(k - 1) : text[h] \in Blank
          /\ \E h \in (j + 1)..(k - 2) : text[h] = "\n" /\ text[h + 1] = "\n"

Segments(text) == Cardinality({ k \in DOMAIN text : StartsSegment(text, k) })

\* s holds p as a run of consecutive chunks.
Holds(s, p) ==
  \E i \in 1..(Len(s) - Len(p) + 1) : SubSeq(s, i, i + Len(p) - 1) = p

\* The report has the line "- <label> <n>".
Reports(label, n) ==
  Holds(ret.blocks[1], <<"-">> \o label \o NatToStr(n) \o <<"\n">>)

C12_TextCounts ==
  AnalyzerOfString
    => LET text == arguments["text"].s
       IN /\ Done
          /\ OneBlock
          /\ Reports(<<"Word", "count:">>, TokenCount(text, 1, FALSE))
          /\ Reports(<<"Sentence", "count:">>, SentenceMarks(text))
          /\ Reports(<<"Paragraph", "count:">>, Segments(text))

\* Two paragraphs of one word each, the first a sentence.
C12_Witness ==
  /\ Done
  /\ AnalyzerOfString
  /\ arguments["text"].s = <<".", "\n", "\n", "a">>
  /\ Reports(<<"Word", "count:">>, 2)
  /\ Reports(<<"Sentence", "count:">>, 1)
  /\ Reports(<<"Paragraph", "count:">>, 2)

(***************************************************************************)
(* C13: for every non-empty text the reported average words per sentence   *)
(* is word_count / max(sentence_count, 1) to one decimal: a text without   *)
(* '.', '!' and '?' reports its word count, and nothing is raised.         *)
(* "Hi. Bye!" reports 2 words, 2 sentences and the average 1.0.            *)
(***************************************************************************)
\* The report gives the average as r tenths.
ReportsAverage(r) ==
  Holds(ret.blocks[1],
        <<"-", "Average", "words", "per", "sentence:">> \o NatToStr(r \div 10)
          \o <<".">> \o NatToStr(r % 10) \o <<"\n">>)

C13_AverageWordsPerSentence ==
  AnalyzerOfString
    => LET text == arguments["text"].s
           words == TokenCount(text, 1, FALSE)
           marks == SentenceMarks(text)
           sentences == IF marks >= 1 THEN marks ELSE 1
       IN /\ Done
          /\ OneBlock
          /\ ret.kind = ""
          /\ \E r \in 0..(10 * words) :
               /\ ReportsAverage(r)
               /\ 2 * Abs(r * sentences - 10 * words) <= sentences
          /\ marks = 0 => ReportsAverage(10 * words)

\* The specification's example.
C13_Witness ==
  /\ Done
  /\ AnalyzerOfString
  /\ arguments["text"].s = HiBye
  /\ Reports(<<"Word", "count:">>, 2)
  /\ Reports(<<"Sentence", "count:">>, 2)
  /\ ReportsAverage(10)

(***************************************************************************)
(* C14: list_files answers a path that does not exist and a path that is   *)
(* not a directory with two different error messages (does not exist / is  *)
(* not a directory), and a successful listing names each entry of the      *)
(* directory once, in ascending order.                                     *)
(***************************************************************************)
\* The path of the list_files call, and what the file system has there.
ListedPath == ArgGet(arguments, "path", StrV(<<".">>)).s

ListedNode == FileSystem(IF Len(ListedPath) = 1 THEN ListedPath[1] ELSE "")

\* The entry names in the report, in the order of the report.
ListedNames == SelectSeq(ret.blocks[1], LAMBDA c : c \in ListedNode.entries)

C14_ListFilesErrorsAndOrder ==
  (Done /\ tool = "list_files")
    => /\ OneBlock
       /\ ~ListedNode.exists
            => /\ Holds(ret.blocks[1], <<"does", "not", "exist">>)
               /\ ~Holds(ret.blocks[1], <<"is", "not", "a", "directory">>)
       /\ (ListedNode.exists /\ ~ListedNode.isdir)
            => /\ Holds(ret.blocks[1], <<"is", "not", "a", "directory">>)
               /\ ~Holds(ret.blocks[1], <<"does", "not", "exist">>)
       /\ (ListedNode.isdir /\ ListedNode.readable /\ ListedNode.entries # {})
            => /\ ret.kind = ""
               /\ Range(ListedNames) = ListedNode.entries
               /\ \A i, j \in DOMAIN ListedNames :
                    i < j => NameRank(ListedNames[i]) < NameRank(ListedNames[j])

\* The listing of the current directory: upper case sorts before lower case.
C14_Witness ==
  /\ Done
  /\ tool = "list_files"
  /\ ListedPath = <<".">>
  /\ ListedNames = <<"B.txt", "a.txt", "b">>

(***************************************************************************)
(* C15: get_location_coordinates sends one lookup request per invocation,  *)
(* asking for one match; it returns None when the provider answers with a  *)
(* status other than 200, with no result, or not at all, and the first     *)
(* result otherwise; it never asks again and never raises.                 *)
(***************************************************************************)
GeocodingTools == {"get_weather", "get_flights_by_location"}

GeocodeRequests == { k \in Requests : log[k].svc = "geocode" }

\* The response leaves the geocoder nothing to return.
NoMatch(resp) == resp.kind # "ok" \/ resp.code # 200 \/ resp.results = <<>>

C15_GeocoderOneRequest ==
  /\ \A k \in GeocodeRequests :
       log[k].num = IntV(1) /\ log[k].q = arguments["location"]
  /\ (tool \in GeocodingTools /\ pc = "geocode")
       => Cardinality(GeocodeRequests) = 1 /\ georesp = NoGeoResp
  /\ (tool \in GeocodingTools /\ georesp # NoGeoResp)
       => /\ Cardinality(GeocodeRequests) = 1
          /\ pc # "geocode"
          /\ NoMatch(georesp)
               => Done /\ OneBlock /\ ret.kind = "NotFound"
                    /\ Cardinality(Requests) = 1
          /\ (~NoMatch(georesp) /\ HasCoordinates(georesp.results[1]))
               => location_data = georesp.results[1]
          /\ (~NoMatch(georesp) /\ ~HasCoordinates(georesp.results[1]))
               => Done /\ ret.kind = "KeyError"
  /\ (tool = CompositeTool /\ georesp # NoGeoResp /\ NoMatch(georesp)
        /\ Cardinality(GeocodeRequests) = 1)
       => Done /\ OneBlock /\ ret.kind = "NotFound" /\ Cardinality(Requests) = 1

\* The provider answered the lookup of get_weather with status 500 and a
\* body: the handler reports that the location was not found.
C15_Witness ==
  /\ Done
  /\ tool = "get_weather"
  /\ georesp = GeoResp("status", 500, <<Oslo>>)
  /\ ret.kind = "NotFound"
  /\ Cardinality(Requests) = 1

(***************************************************************************)
(* C16: without the credential, get_flights_by_location and                *)
(* get_airport_info called with a location return the missing-credential   *)
(* block and send no request at all, neither to the geocoder nor to the    *)
(* provider.                                                               *)
(***************************************************************************)
CredentialTools == {"get_flights_by_location", "get_airport_info"}

C16_NoCredentialNoRequest ==
  /\ (tool \in CredentialTools /\ apiKey = ""
        /\ Truthy(ArgGet(arguments, "location", StrV(<<>>))))
       => /\ Done
          /\ OneBlock
          /\ ret.kind = "MissingCredential"
          /\ FirstWord = "Error:"
          /\ Holds(ret.blocks[1], <<"API", "key", "not", "found.">>)
          /\ Requests = {}
          /\ inflight = {}
  /\ apiKey = "" => \A k \in Requests : log[k].svc \notin {"flights", "airports"}

\* get_flights_by_location for Oslo without the credential: the variable
\* was read and nothing was sent.
C16_Witness ==
  /\ Done
  /\ tool = "get_flights_by_location"
  /\ apiKey = ""
  /\ ArgGet(arguments, "location", StrV(<<>>)) = StrV(<<"Oslo">>)
  /\ ret = MissingApiKey
  /\ log = <<GetenvEvent("")>>

(***************************************************************************)
(* C17: get_weather, get_flights_by_location and get_airport_info answer a *)
(* provider status other than 200 with an error block that reports the     *)
(* status, and a transport failure with an error block; the request was    *)
(* sent once, and the handler does not raise.                              *)
(***************************************************************************)
DataTools == {"get_weather", "get_flights_by_location", "get_airport_info"}

DataProviders == {"weather", "flights", "airports"}

RequestsTo(svc) == { k \in Requests : log[k].svc = svc }

C17_ProviderFailureReported ==
  /\ \A svc \in DataProviders : Cardinality(RequestsTo(svc)) <= 1
  /\ (tool \in DataTools /\ pc \in DataProviders)
       => Cardinality(RequestsTo(pc)) = 1 /\ dataresp = NoDataResp
  /\ (tool \in DataTools /\ dataresp # NoDataResp)
       => /\ Done
          /\ Cardinality(RequestsTo(dataresp.svc)) = 1
          /\ dataresp.kind = "status"
               => /\ OneBlock
                  /\ FirstWord = "Error:"
                  /\ ret.kind = "ProviderError"
                  /\ Holds(ret.blocks[1],
                           <<"(status:">> \o NatToStr(dataresp.code) \o <<")">>)
          /\ dataresp.kind = "fail"
               => /\ OneBlock
                  /\ IsErrorText(ret.blocks[1])
                  /\ ret.kind = "ClientError"

\* The flights provider refused the credential: status 401 is reported.
C17_Witness ==
  /\ Done
  /\ tool = "get_flights_by_location"
  /\ dataresp = [svc |-> "flights", kind |-> "status", code |-> 401]
  /\ Holds(ret.blocks[1], <<"(status:", "4", "0", "1", ")">>)
  /\ Cardinality(RequestsTo("flights")) = 1

(***************************************************************************)
(* C18: a call's output is determined by the tool, the arguments, the      *)
(* credential and the responses it received: a second copy of the server,  *)
(* started afresh and given the same inputs, ends in the same output,      *)
(* whatever calls went before and in whatever order the directory's        *)
(* entries are read.                                                       *)
(***************************************************************************)
\* The second copy: a fresh call given the responses rs[k..].
RECURSIVE Replay(_, _, _, _, _, _)
Replay(m, name, args, env, rs, k) ==
  IF k > Len(rs) \/ m.pc \in {"done", "idle"} THEN m
  ELSE Replay(OnResponse(m, name, args, env, rs[k]), name, args, env, rs, k + 1)

SecondCopy(listing) ==
  Replay(call_tool(tool, arguments, apiKey, listing), tool, arguments, apiKey,
         trace, 1)

\* The orders in which the second copy may read the directory; only
\* list_files reads one.
OrdersRead ==
  IF tool = "list_files" THEN ListingsFor(arguments) ELSE {<<>>}

C18_SameInputsSameOutput ==
  Done
    => \A listing \in OrdersRead :
         LET second == SecondCopy(listing)
         IN /\ second.pc = "done"
            /\ second.ret = ret

\* A composite call that received six responses: the geocoder's to the
\* composite, to its weather step and to its flights step, and the three
\* providers'.
C18_Witness ==
  /\ Done
  /\ tool = CompositeTool
  /\ Len(trace) = 6
  /\ \A listing \in OrdersRead : SecondCopy(listing).ret = ret

(***************************************************************************)
(* C19: a call that leaves an optional parameter out returns what the same *)
(* call returns with the schema default supplied for it, and sends the     *)
(* same requests: path ".", days 3, include_hourly false, radius 100,      *)
(* limit 20, include_flights true, include_weather true, flight_radius     *)
(* 100.                                                                    *)
(***************************************************************************)
\* The argument map with every missing optional parameter set to its default.
WithDefaults(name, args) ==
  [k \in DOMAIN args \cup DOMAIN SchemaDefaults(name) |->
     IF k \in DOMAIN args THEN args[k] ELSE SchemaDefaults(name)[k]]

LeftOut == DOMAIN SchemaDefaults(tool) \ DOMAIN arguments

\* The same call with the defaults supplied, given the same responses.
Defaulted(listing) ==
  Replay(call_tool(tool, WithDefaults(tool, arguments), apiKey, listing), tool,
         WithDefaults(tool, arguments), apiKey, trace, 1)

C19_MissingOptionalIsDefault ==
  (Done /\ LeftOut # {})
    => \A listing \in OrdersRead :
         LET d == Defaulted(listing)
         IN /\ d.pc = "done"
            /\ d.ret = ret
            /\ d.log = log

\* The composite called with the location only: all three of its defaults
\* apply and the flights block names the radius.
C19_Witness ==
  /\ Done
  /\ tool = CompositeTool
  /\ DOMAIN arguments = {"location"}
  /\ ret.kind = ""
  /\ Holds(ret.blocks[1], <<"(", "1", "0", "0", "km", "radius)">>)

(***************************************************************************)
(* C20: a formatter given a payload in which optional fields are absent    *)
(* (not null) returns text, never raises, and writes nothing in the place  *)
(* of an absent field.                                                     *)
(***************************************************************************)
\* The payload of the last response the call received.
Payload == trace[Len(trace)].body

\* The handler of a single data tool received a 200 response from svc.
FormatterRan(name, svc) ==
  /\ Done
  /\ tool = name
  /\ ArgGet(arguments, "location", StrV(<<>>)) = StrV(<<"Oslo">>)
  /\ dataresp.svc = svc
  /\ dataresp.kind = "ok"

WeatherFormatted ==
  format_weather_response(Payload, location_data.name[1], Country(location_data),
                          Truthy(ArgGet(arguments, "include_hourly", BoolV(FALSE))))

FlightFormatted ==
  format_flight_response(Payload, location_data.name[1], Country(location_data),
                         location_data.latitude[1], location_data.longitude[1],
                         ArgGet(arguments, "radius", IntV(100)))

\* No sub-object of a flight of the payload is null.
NothingNull ==
  \A k \in DOMAIN (IF IsSet(Payload.data) THEN Payload.data[1] ELSE <<>>) :
    ~IsNull(Payload.data[1][k])

C20_FormattersOmitAbsentFields ==
  /\ FormatterRan("get_weather", "weather") => ~WeatherFormatted.raised
  /\ (FormatterRan("get_flights_by_location", "flights") /\ NothingNull)
       => /\ ~FlightFormatted.raised
          /\ ~Contains(FlightFormatted.text, "Unknown")

(***************************************************************************)
(* C21: the flight report enumerates the first 10 records of the payload   *)
(* in payload order and no more, the airport report every airport, and the *)
(* weather report every day of the daily block.                            *)
(***************************************************************************)
\* The positions of the report where an entry headed "<word> <n>:" starts.
EntryHeads(text, word) ==
  { p \in 1..(Len(text) - 1) : text[p] = word /\ IsDigit(text[p + 1]) }

\* The i-th entry of the report starts with the chunks of start.
EntryStarts(text, word, i, start) ==
  \E p \in EntryHeads(text, word) :
    /\ Cardinality({ q \in EntryHeads(text, word) : q < p }) = i - 1
    /\ p + Len(start) - 1 <= Len(text)
    /\ SubSeq(text, p, p + Len(start) - 1) = start

Records == IF IsSet(Payload.data) THEN Payload.data[1] ELSE <<>>

FlightEntryStart(i) ==
  <<"FLIGHT">> \o NatToStr(i) \o <<":", "\n">>
  \o (IF IsSet(Field(Records[i].flight, "number"))
      THEN <<"Flight:">> \o Field(Records[i].flight, "number")[1] ELSE <<>>)

AirportEntryStart(i) ==
  <<"AIRPORT">> \o NatToStr(i) \o <<":", "\n">>
  \o (IF IsSet(Records[i].airport_name)
      THEN <<"Name:">> \o Records[i].airport_name[1] ELSE <<>>)

\* The days of the payload's daily block.
Days == IF IsSet(Payload.daily.time) THEN Payload.daily.time[1] ELSE <<>>

C21_EntriesEnumerated ==
  /\ (FormatterRan("get_flights_by_location", "flights") /\ ret.kind = "")
       => LET text == ret.blocks[1]
              n == IF Len(Records) < 10 THEN Len(Records) ELSE 10
          IN /\ Cardinality(EntryHeads(text, "FLIGHT")) = n
             /\ \A i \in 1..n : EntryStarts(text, "FLIGHT", i, FlightEntryStart(i))
  /\ (FormatterRan("get_airport_info", "airports") /\ ret.kind = "")
       => LET text == ret.blocks[1]
          IN /\ Cardinality(EntryHeads(text, "AIRPORT")) = Len(Records)
             /\ \A i \in DOMAIN Records :
                  EntryStarts(text, "AIRPORT", i, AirportEntryStart(i))
  /\ (FormatterRan("get_weather", "weather") /\ ret.kind = "")
       => LET text == ret.blocks[1]
          IN /\ Cardinality({ p \in DOMAIN text : text[p] = ":" }) = Len(Days)
             /\ \A i \in DOMAIN Days :
                  Holds(text, <<"\n">> \o DatePart(Days[i]) \o <<":", "\n">>)

\* A payload of more than 10 flights: the tenth is reported, the eleventh
\* is not.
C21_Witness ==
  /\ FormatterRan("get_flights_by_location", "flights")
  /\ Len(Records) > 10
  /\ Holds(ret.blocks[1], <<"Flight:", "SK", "1", "0">>)
  /\ ~Holds(ret.blocks[1], <<"Flight:", "SK", "1", "1">>)

(***************************************************************************)
(* C22: get_weather_description gives 18 codes a phrase of their own and   *)
(* every other code N the text "Unknown weather (code: N)".                *)
(***************************************************************************)
UnknownWeather(c) ==
  <<"Unknown", "weather", "(code:">> \o IntToStr(c) \o <<")">>

\* The codes the table knows.
KnownCodes == { c \in CodeRange : get_weather_description(c) # UnknownWeather(c) }

C22_WeatherDescription ==
  /\ Cardinality(KnownCodes) = 18
  /\ described.text # <<>>
       => IF described.code \in KnownCodes
          THEN /\ ~Contains(described.text, "Unknown")
               /\ \A c \in KnownCodes :
                    get_weather_description(c) = described.text
                      => c = described.code
          ELSE described.text = UnknownWeather(described.code)

\* Code 99, the last of the table.
C22_Witness ==
  described = [code |-> 99, text |-> <<"Thunderstorm", "with", "heavy", "hail">>]

(***************************************************************************)
(* C23: a get_location_data call sends the geocoder one request, and its   *)
(* weather and flights steps report on the location that request resolved. *)
(***************************************************************************)
C23_CompositeGeocodesOnce ==
  tool = CompositeTool => Cardinality(GeocodeRequests) <= 1

(***************************************************************************)
(* C24: the requests of a get_location_data call are sequential: at most   *)
(* one is in flight at any moment, and each is sent only after every       *)
(* earlier one was answered or failed.                                     *)
(***************************************************************************)
C24_CompositeSequential ==
  tool = CompositeTool
    => /\ Cardinality(inflight) <= 1
       /\ Cardinality(Requests) = Len(trace) + Cardinality(inflight)
       /\ inflight # {} => inflight = {pc}

\* The flights request in flight after the five requests before it were
\* answered.
C24_Witness ==
  /\ tool = CompositeTool
  /\ inflight = {"flights"}
  /\ Len(trace) = 5
  /\ Cardinality(Requests) = 6

(***************************************************************************)
(* C25: calls share no mutable state: however two concurrent calls         *)
(* interleave, a call returns what it returns when it runs alone with the  *)
(* same arguments, credential and responses.                               *)
(***************************************************************************)
\* Call i run alone.
Alone(i) ==
  Replay(call_tool(calls[i].tool, calls[i].arguments, apiKey, <<>>),
         calls[i].tool, calls[i].arguments, apiKey, calls[i].trace, 1)

Getenvs == { k \in DOMAIN log : log[k].ev = "getenv" }

\* The reads this step adds to the log.
NewGetenvs == { k \in DOMAIN log' \ DOMAIN log : log'[k].ev = "getenv" }

C26_CredentialReadAtEachCall ==
  [][/\ \A k \in NewGetenvs : log'[k].key = apiKey
     /\ (tool' \in CredentialTools /\ NewGetenvs # {})
          => IF apiKey = ""
             THEN pc' = "done" /\ ret' = MissingApiKey /\ Requests' = {}
             ELSE pc' \in {"geocode", "airports"}
     /\ (tool' = CompositeTool /\ pc' = "done" /\ ret'.kind = "")
          => Cardinality(Getenvs')
               = 1 + (IF Truthy(ArgGet(arguments', "include_flights", BoolV(TRUE)))
                      THEN 1 ELSE 0)]_vars

\* A composite call whose airport step found the variable set and asked
\* the provider, and whose flights step, after the variable was unset while
\* the airports request was in flight, found it unset.
C26_Witness ==
  /\ Done
  /\ tool = CompositeTool
  /\ \E j, k \in Getenvs : j < k /\ log[j].key # "" /\ log[k].key = ""
  /\ Cardinality(RequestsTo("airports")) = 1
  /\ Cardinality(RequestsTo("flights")) = 0
  /\ Holds(ret.blocks[1], <<"API", "key", "not", "found.">>)

(***************************************************************************)
(* C27: get_flights_by_location does not filter by distance: its request   *)
(* to the provider carries the credential and the limit and neither the    *)
(* coordinates nor the radius, and the flights it lists are the same for   *)
(* every radius and every resolved location given the same payload.        *)
(***************************************************************************)
\* The part of a flight report between its header and its footer.
Listed(text) ==
  LET heads == EntryHeads(text, "FLIGHT")
      first == CHOOSE p \in heads : \A q \in heads : p <= q
      last == CHOOSE p \in DOMAIN text :
                SubSeq(text, p, p + 1) = <<"Data", "provided">>
  IN IF heads = {} THEN <<>> ELSE SubSeq(text, first, last - 1)

\* Another place the geocoder resolves.
Bergen == [name |-> Some(<<"Bergen">>), country |-> None,
           latitude |-> Some(603913), longitude |-> Some(53221)]

\* The report of the same payload for another place and radius.
ReportFor(loc, radius) ==
  format_flight_response(Payload, loc.name[1], Country(loc), loc.latitude[1],
                         loc.longitude[1], radius).text

C27_NoDistanceFilter ==
  /\ \A k \in RequestsTo("flights") :
       /\ log[k].key = api_key
       /\ log[k].num = (IF tool = CompositeTool THEN IntV(10)
                        ELSE ArgGet(arguments, "limit", IntV(20)))
       /\ log[k].lat = 0 /\ log[k].lon = 0
       /\ log[k].q = StrV(<<>>)
  /\ (FormatterRan("get_flights_by_location", "flights") /\ ret.kind = "")
       => \A loc \in {Oslo, Bergen} :
            \A radius \in {IntV(10), IntV(500)} :
              Listed(ReportFor(loc, radius)) = Listed(ret.blocks[1])

\* Two flights listed for a radius of 50 km around Oslo.
C27_Witness ==
  /\ FormatterRan("get_flights_by_location", "flights")
  /\ ArgGet(arguments, "radius", IntV(100)) = IntV(50)
  /\ Len(Records) = 2
  /\ Len(Listed(ret.blocks[1])) > 0
  /\ Cardinality(RequestsTo("flights")) = 1

(***************************************************************************)
(* C28: concurrent /search requests of the demo app are isolated: the      *)
(* flights and airports a request returns were generated around the        *)
(* location that request resolved, and once every request has finished     *)
(* the tracker's location, flights and airports belong to one request.     *)
(***************************************************************************)
C28_SearchRequestsIsolated ==
  /\ \A i \in Callers :
       (reqs[i].pc = "done" /\ reqs[i].status = 200)
         => /\ reqs[i].location = [name |-> reqs[i].query, by |-> i]
            /\ reqs[i].flights.center = reqs[i].query
            /\ reqs[i].airports.center = reqs[i].query
  /\ (\A i \in Callers : reqs[i].pc \in {"idle", "done"})
       => /\ tracker.current_flights # NoMock
            => tracker.current_flights.by = tracker.current_location.by
          /\ tracker.current_airports # NoMock
            => tracker.current_airports.by = tracker.current_location.by

(***************************************************************************)
(* C29: the number in the flight report's "SHOWING n FLIGHTS" line is the  *)
(* number of flight entries listed below it.                               *)
(***************************************************************************)
C29_ShowingCountMatchesEntries ==
  (FormatterRan("get_flights_by_location", "flights") /\ ret.kind = ""
     /\ Records # <<>>)
    => Holds(ret.blocks[1],
             <<"SHOWING">>
               \o NatToStr(Cardinality(EntryHeads(ret.blocks[1], "FLIGHT")))
               \o <<"FLIGHTS:">>)

(***************************************************************************)
(* C30: when the geocoder finds nothing for a get_location_data call, the  *)
(* call returns the one block "Error: Location '<location>' not found..."  *)
(* and runs no step: it sends no further request and does not read the     *)
(* credential.                                                             *)
(***************************************************************************)
C30_CompositeStopsWhenNotFound ==
  (tool = CompositeTool /\ trace # <<>> /\ NoMatch(trace[1]))
    => /\ Done
       /\ OneBlock
       /\ ret.kind = "NotFound"
       /\ Holds(ret.blocks[1],
                <<"Error:", "Location", "'">>
                  \o ArgToStr(ArgGet(arguments, "location", StrV(<<>>)))
                  \o <<"'", "not", "found.">>)
       /\ Len(trace) = 1
       /\ Cardinality(Requests) = 1
       /\ Getenvs = {}
       /\ steps = <<>>

\* The geocoder answered 200 with no results while the credential was set.
C30_Witness ==
  /\ Done
  /\ tool = CompositeTool
  /\ apiKey # ""
  /\ trace = <<GeoResp("ok", 200, <<>>)>>
  /\ FirstWord = "Error:"

====
